---- MODULE Spec2Model ----
(***************************************************************************)
(* Model of the wallet core of concordium-base:                            *)
(*   rust-src/elgamal/src/secret.rs   (ElGamal secret key, baby-step       *)
(*                                     giant-step discrete logarithm)      *)
(*   mobile_wallet/src/lib.rs         (transaction builders, signing,      *)
(*                                     identity request, credential)       *)
(*                                                                         *)
(* The curve C is modelled as the cyclic group Z_q written additively;     *)
(* a point is a residue 0..q-1 and a scalar is a residue 0..q-1.           *)
(***************************************************************************)
EXTENDS Integers, Sequences, FiniteSets, TLC

(* ------------------------------ bounds --------------------------------- *)
\* largest group modulus q that Init draws
MaxOrder == 7
\* largest table size m that Init draws
MaxM == 4
\* cap on the giant-step counter i (the code's cap is u64::MAX)
MaxGiant == 160
\* largest secret scalar that Init draws
MaxScalar == 2
\* largest ephemeral randomness that Init draws
MaxRand == 1
\* largest amount that Init draws (next to the end-to-end amounts)
MaxAmount == 2
\* largest credential index of an AccountKeys value
MaxCred == 1
\* largest key index under a credential
MaxKey == 1
\* largest signature threshold
MaxThreshold == 2
\* largest number of anonymity revokers
MaxArs == 258
\* modulus of the scalar ring the PRF keys are drawn from
PrfModulus == 5
\* largest attribute tag
MaxTag == 2
\* longest list of revealed tags
MaxTags == 3
\* largest account number
MaxAccount == 1

\* largest max_accounts of an identity object
MaxAccounts == 4

\* most decrypt_encrypted_amount calls of one process
MaxCalls == 3

\* length of the short vectors, strings and maps serialized
MaxVec == 2

VARIABLES
    q,          \* the curve: the modulus of the cyclic group Z_q
    base,       \* the base point g handed to BabyStepGiantStep::new
    bsgs,       \* the BabyStepGiantStep value [table, inverse_point, m], or NoBsgs
    x,          \* the exponent whose image x*g is looked up
    calls,      \* discrete_log invocations: call id -> [pc, v, y, i, ret]
    eg,         \* the ElGamal run: keys, amounts, randomness, ciphertexts
    tx,         \* one call of a transfer builder: input, position, body, hash, result
    idr,        \* one call of create_id_request_and_private_data_aux
    cr,         \* one call of create_credential_aux
    ga,         \* one call of generate_accounts_aux
    da,         \* the decrypt_encrypted_amount calls of one process
    ffi,        \* one call of an exported entry point: pointers, flag, return value
    sr          \* one round trip of a derived Serial / Deserial implementation

vars == <<q, base, bsgs, x, calls, eg, tx, idr, cr, ga, da, ffi, sr>>

\* the variables of the wallet entry points
walletVars == <<tx, idr, cr, ga, da, ffi, sr>>

\* the variables of the boundary and of the entry points added to the builders
boundaryVars == <<ga, da, ffi, sr>>

\* the variables of the discrete-log and ElGamal part
cryptoVars == <<q, base, bsgs, x, calls, eg>>

NoBsgs == [table |-> <<>>, inverse_point |-> 0, m |-> 0, built |-> FALSE]

(* --------------------- the curve (Curve trait) ------------------------- *)
zero_point == 0

plus_point(a, b) == (a + b) % q

inverse_point(a) == (q - a) % q

minus_point(a, b) == plus_point(a, inverse_point(b))

mul_by_scalar(p, s) == (p * s) % q

\* canonical serialization of a point: two bytes, big endian
to_bytes(p) == <<p \div 256, p % 256>>

\* the order of point g in the group: the least k >= 1 with k*g = 0
Order(g) == CHOOSE k \in 1..q : mul_by_scalar(g, k) = 0 /\ \A k2 \in 1..(k - 1) : mul_by_scalar(g, k2) # 0

\* Option::None
None == [some |-> FALSE]

\* Option::Some(val)
Some(val) == [some |-> TRUE, val |-> val]

\* Result::Ok(val)
Ok(val) == [ok |-> TRUE, val |-> val]

\* Result::Err(msg), the error a bail!/ensure! raises
Err(msg) == [ok |-> FALSE, err |-> msg]

\* no result yet
Pending == [pending |-> TRUE]

NoTx == [pc |-> "off"]

NoIdRequest == [pc |-> "off"]

NoCredential == [pc |-> "off"]

NoAccounts == [pc |-> "off"]

NoDecrypt == [pc |-> "off"]

NoFfi == [pc |-> "off"]

NoSerial == [pc |-> "off"]

\* no entry point of the boundary is running
BoundaryOff == ga = NoAccounts /\ da = NoDecrypt /\ ffi = NoFfi /\ sr = NoSerial

NoCipher == <<0, 0>>

NoElGamal == [pc |-> "off", sk |-> [generator |-> 0, scalar |-> 0], a |-> 0, b |-> 0,
              k |-> <<0, 0, 0>>, left |-> NoCipher, right |-> NoCipher,
              agg |-> NoCipher, direct |-> NoCipher]

(* ------------------ BabyStepGiantStep (secret.rs) ---------------------- *)
\* HashMap::insert: a later insert of the same key replaces the value
insert(t, k, val) == [kk \in (DOMAIN t) \cup {k} |-> IF kk = k THEN val ELSE t[kk]]

\* the loop of BabyStepGiantStep::new, from iteration j on
RECURSIVE new_loop(_, _, _, _, _)
new_loop(t, base_j, j, b, mm) ==
    IF j >= mm
    THEN [table |-> t, base_j |-> base_j]
    ELSE new_loop(insert(t, to_bytes(base_j), j), plus_point(base_j, b), j + 1, b, mm)

\* mutant of new: the giant-step point is base^m, its inverse is not taken
new_without_inverse(b, mm) ==
    LET r == new_loop(<<>>, zero_point, 0, b, mm)
    IN  [table |-> r.table, inverse_point |-> r.base_j, m |-> mm, built |-> TRUE]

\* mutant of new: the loop stops one entry early, m and inverse_point as before
new_last_entry_missing(b, mm) ==
    LET r == new_loop(<<>>, zero_point, 0, b, mm - 1)
    IN  [table |-> r.table, inverse_point |-> inverse_point(plus_point(r.base_j, b)),
         m |-> mm, built |-> TRUE]

\* BabyStepGiantStep::new(base, m)
new(b, mm) ==
    LET r == new_loop(<<>>, zero_point, 0, b, mm)
    IN  [table |-> r.table, inverse_point |-> inverse_point(r.base_j), m |-> mm, built |-> TRUE]

\* the table sizes tried: the small ones and one larger than every small group
TableSizes == (1..MaxM) \cup {16}

Idle == [pc |-> "idle", v |-> 0, y |-> 0, i |-> 0, ret |-> 0]

\* BabyStepGiantStep::new runs once, right before the first lookup needs the table
BabyStepGiantStepNew ==
    /\ ~bsgs.built
    /\ eg.pc \in {"off", "decrypt_agg"}
    /\ \E mm \in TableSizes :
          bsgs' = new(base, mm)
    /\ UNCHANGED <<q, base, x, calls, eg, walletVars>>

\* discrete_log(&self, v): entry, `let mut y = *v` and i = 0
DiscreteLogCall(c) ==
    /\ bsgs.built
    /\ calls[c].pc = "idle"
    /\ LET v == mul_by_scalar(base, x)
       IN  calls' = [calls EXCEPT ![c] = [pc |-> "loop", v |-> v, y |-> v, i |-> 0, ret |-> 0]]
    /\ UNCHANGED <<q, base, bsgs, x, eg, walletVars>>

\* the table probe of one iteration hits: return i * m + j (a u64; the values
\* reached here stay far below 2^64, so the product and sum do not wrap)
DiscreteLogHit(c) ==
    /\ calls[c].pc = "loop"
    /\ to_bytes(calls[c].y) \in DOMAIN bsgs.table
    /\ calls' = [calls EXCEPT ![c].pc = "returned",
                              ![c].ret = calls[c].i * bsgs.m + bsgs.table[to_bytes(calls[c].y)]]
    /\ UNCHANGED <<q, base, bsgs, x, eg, walletVars>>

\* mutant of DiscreteLogGiantStep: the missed point is memoised in the shared table
DiscreteLogGiantStepMemoises(c) ==
    /\ calls[c].pc = "loop"
    /\ to_bytes(calls[c].y) \notin DOMAIN bsgs.table
    /\ calls[c].i < MaxGiant
    /\ calls' = [calls EXCEPT ![c].y = plus_point(calls[c].y, bsgs.inverse_point),
                              ![c].i = calls[c].i + 1]
    /\ bsgs' = [bsgs EXCEPT !.table = insert(bsgs.table, to_bytes(calls[c].y), calls[c].i)]
    /\ UNCHANGED <<q, base, x, eg, walletVars>>

\* the table probe misses: one giant step, y = y + inverse_point
DiscreteLogGiantStep(c) ==
    /\ calls[c].pc = "loop"
    /\ to_bytes(calls[c].y) \notin DOMAIN bsgs.table
    /\ calls[c].i < MaxGiant
    /\ calls' = [calls EXCEPT ![c].y = plus_point(calls[c].y, bsgs.inverse_point),
                              ![c].i = calls[c].i + 1]
    /\ UNCHANGED <<q, base, bsgs, x, eg, walletVars>>

(* ---------------------- ElGamal (secret.rs) ----------------------------- *)
\* PublicKey::from(&SecretKey): key = scalar * generator
PublicKeyFrom(sk) == [generator |-> sk.generator, key |-> mul_by_scalar(sk.generator, sk.scalar)]

\* encryption of an amount in the exponent with randomness k: (k*g, amt*g + k*pk)
encrypt_exponent(pk, amt, k) ==
    <<mul_by_scalar(pk.generator, k),
      plus_point(mul_by_scalar(pk.generator, amt), mul_by_scalar(pk.key, k))>>

\* aggregate: component-wise group addition of two ciphertexts
aggregate(l, r) == <<plus_point(l[1], r[1]), plus_point(l[2], r[2])>>

\* mutant of decrypt: the mask scalar * x is added instead of subtracted
decrypt_adds_mask(sk, c) ==
    LET cx == c[1]
        kag == mul_by_scalar(cx, sk.scalar)
        cy == c[2]
    IN  [value |-> plus_point(cy, kag)]

\* SecretKey::decrypt: the message value y - scalar * x of cipher (x, y)
decrypt(sk, c) ==
    LET cx == c[1]
        kag == mul_by_scalar(cx, sk.scalar)
        cy == c[2]
    IN  [value |-> minus_point(cy, kag)]

\* the three encryptions of the run, one per step: a, b and a + b
EncryptAmount ==
    LET pk == PublicKeyFrom(eg.sk)
    IN  /\ eg.pc \in {"enc_left", "enc_right", "enc_sum"}
        /\ eg' = CASE eg.pc = "enc_left" ->
                        [eg EXCEPT !.left = encrypt_exponent(pk, eg.a, eg.k[1]), !.pc = "enc_right"]
                   [] eg.pc = "enc_right" ->
                        [eg EXCEPT !.right = encrypt_exponent(pk, eg.b, eg.k[2]), !.pc = "enc_sum"]
                   [] eg.pc = "enc_sum" ->
                        [eg EXCEPT !.direct = encrypt_exponent(pk, eg.a + eg.b, eg.k[3]), !.pc = "aggregate"]
        /\ UNCHANGED <<q, base, bsgs, x, calls, walletVars>>

\* combine_encrypted_amounts_aux: aggregate(left, right)
CombineEncryptedAmounts ==
    /\ eg.pc = "aggregate"
    /\ eg' = [eg EXCEPT !.agg = aggregate(eg.left, eg.right), !.pc = "decrypt_agg"]
    /\ UNCHANGED <<q, base, bsgs, x, calls, walletVars>>

\* SecretKey::decrypt_exponent(c, bsgs): decrypt, then enter bsgs.discrete_log(&dec)
DecryptExponent(c) ==
    /\ bsgs.built
    /\ calls[c].pc = "idle"
    /\ \/ c = 1 /\ eg.pc = "decrypt_agg"
       \/ c = 2 /\ eg.pc = "decrypt_sum" /\ calls[1].pc = "returned"
    /\ LET dec == decrypt(eg.sk, IF c = 1 THEN eg.agg ELSE eg.direct).value
       IN  calls' = [calls EXCEPT ![c] = [pc |-> "loop", v |-> dec, y |-> dec, i |-> 0, ret |-> 0]]
    /\ eg' = [eg EXCEPT !.pc = IF c = 1 THEN "decrypt_sum" ELSE "done"]
    /\ UNCHANGED <<q, base, bsgs, x, walletVars>>

\* the end-to-end amounts of the specification: 100 and 50 in a group where 150 fits
EndToEnd == [q |-> 151, a |-> 100, b |-> 50]

InitElGamal ==
    /\ \/ /\ q \in (MaxOrder - 1)..MaxOrder
          /\ base \in 0..(q - 1)
          /\ \E a \in 0..MaxAmount, b \in 0..MaxAmount, s \in {0, 1, MaxScalar},
                k1 \in 0..MaxRand, k2 \in 0..MaxRand, k3 \in {0, MaxRand} :
                eg = [NoElGamal EXCEPT !.pc = "enc_left", !.a = a, !.b = b,
                                       !.sk = [generator |-> base, scalar |-> s % q],
                                       !.k = <<k1, k2, k3>>]
       \/ /\ q = EndToEnd.q
          /\ base = 1
          /\ \E s \in {0, 1, MaxScalar}, k1 \in 0..MaxRand, k2 \in 0..MaxRand, k3 \in {0, MaxRand} :
                eg = [NoElGamal EXCEPT !.pc = "enc_left", !.a = EndToEnd.a, !.b = EndToEnd.b,
                                       !.sk = [generator |-> base, scalar |-> s],
                                       !.k = <<k1, k2, k3>>]
    /\ x = 0
    /\ bsgs = NoBsgs
    /\ calls = [c \in {1, 2} |-> Idle]
    /\ tx = NoTx
    /\ idr = NoIdRequest
    /\ cr = NoCredential
    /\ BoundaryOff

NextElGamal ==
    \/ BabyStepGiantStepNew
    \/ EncryptAmount
    \/ CombineEncryptedAmounts
    \/ \E c \in {1, 2} : DecryptExponent(c)
    \/ \E c \in {1, 2} : DiscreteLogHit(c)
    \/ \E c \in {1, 2} : DiscreteLogGiantStep(c)

SpecElGamal == InitElGamal /\ [][NextElGamal]_vars

\* C2: for a + b within the search bound (a + b < order(g), table size m <= order(g)),
\* decrypt_exponent of aggregate(encrypt(a), encrypt(b)) and decrypt_exponent of
\* encrypt(a + b) both return a + b; 100 and 50 aggregate to 150.
C2_Homomorphism ==
    (eg.a + eg.b < Order(base) /\ bsgs.m <= Order(base))
        => /\ calls[1].pc = "returned" => calls[1].ret = eg.a + eg.b
           /\ calls[2].pc = "returned" => (calls[2].ret = eg.a + eg.b /\ calls[2].ret = calls[1].ret)

C2_Witness ==
    /\ calls[1].pc = "returned" /\ calls[2].pc = "returned"
    /\ eg.a = 100 /\ eg.b = 50 /\ calls[1].ret = 150 /\ calls[2].ret = 150
    /\ eg.k[1] # eg.k[3] /\ eg.sk.scalar > 1 /\ eg.left # eg.right /\ eg.agg # eg.direct

InitBSGS ==
    /\ q \in 2..MaxOrder
    /\ base \in 0..(q - 1)
    /\ x \in 0..(q - 1)
    /\ x < Order(base)
    /\ bsgs = NoBsgs
    /\ calls = [c \in {1} |-> Idle]
    /\ eg = NoElGamal
    /\ tx = NoTx
    /\ idr = NoIdRequest
    /\ cr = NoCredential
    /\ BoundaryOff

NextBSGS ==
    \/ BabyStepGiantStepNew
    \/ DiscreteLogCall(1)
    \/ DiscreteLogHit(1)
    \/ DiscreteLogGiantStep(1)

SpecBSGS == InitBSGS /\ [][NextBSGS]_vars

\* C1: with 1 <= m <= order(g) and 0 <= x < order(g), discrete_log(x*g)
\* returns x, as i*m + j with j < m the value stored for the hit element
\* and i the number of giant steps taken before the first hit.
C1_DiscreteLogCorrect ==
    (calls[1].pc = "returned" /\ bsgs.m <= Order(base))
        => /\ calls[1].ret = x
           /\ calls[1].i = x \div bsgs.m
           /\ bsgs.table[to_bytes(calls[1].y)] = x % bsgs.m

C1_Witness ==
    /\ calls[1].pc = "returned"
    /\ bsgs.m <= Order(base)
    /\ bsgs.m > 1
    /\ calls[1].i >= 2
    /\ bsgs.table[to_bytes(calls[1].y)] >= 1

RECURSIVE discrete_log_loop(_, _, _)
discrete_log_loop(b, y, i) ==
    IF to_bytes(y) \in DOMAIN b.table THEN i * b.m + b.table[to_bytes(y)]
    ELSE IF i >= MaxGiant THEN -1
    ELSE discrete_log_loop(b, plus_point(y, b.inverse_point), i + 1)

\* BabyStepGiantStep::discrete_log(&self, v) as a function of the table and v
discrete_log(b, v) == discrete_log_loop(b, v, 0)

\* SecretKey::decrypt_exponent(&self, c, bsgs) as a function
decrypt_exponent(sk, c, b) ==
    LET dec == decrypt(sk, c).value
    IN  discrete_log(b, dec)

\* one thread enters discrete_log(&v) on the shared table
ConcurrentDiscreteLog(c) ==
    /\ bsgs.built
    /\ calls[c].pc = "idle"
    /\ \E xx \in 0..(Order(base) - 1) :
          LET v == mul_by_scalar(base, xx)
          IN  calls' = [calls EXCEPT ![c] = [pc |-> "loop", v |-> v, y |-> v, i |-> 0, ret |-> 0]]
    /\ UNCHANGED <<q, base, bsgs, x, eg, walletVars>>

\* one thread enters decrypt_exponent(c, &bsgs) on the shared table
ConcurrentDecryptExponent(c) ==
    /\ bsgs.built
    /\ calls[c].pc = "idle"
    /\ \E amt \in 0..MaxAmount, k \in 0..MaxRand :
          LET cipher == encrypt_exponent(PublicKeyFrom(eg.sk), amt, k)
              dec == decrypt(eg.sk, cipher).value
          IN  calls' = [calls EXCEPT ![c] = [pc |-> "loop", v |-> dec, y |-> dec, i |-> 0, ret |-> 0]]
    /\ UNCHANGED <<q, base, bsgs, x, eg, walletVars>>

\* a returned call is dropped and its thread may call again
ConcurrentReturn(c) ==
    /\ calls[c].pc = "returned"
    /\ calls' = [calls EXCEPT ![c] = Idle]
    /\ UNCHANGED <<q, base, bsgs, x, eg, walletVars>>

Threads == {1, 2}

InitConcurrent ==
    /\ q \in 2..MaxOrder
    /\ base \in 0..(q - 1)
    /\ x = 0
    /\ bsgs = NoBsgs
    /\ calls = [c \in Threads |-> Idle]
    /\ \E s \in {1, MaxScalar} :
          eg = [NoElGamal EXCEPT !.sk = [generator |-> base, scalar |-> s % q]]
    /\ tx = NoTx
    /\ idr = NoIdRequest
    /\ cr = NoCredential
    /\ BoundaryOff

NextConcurrent ==
    \/ BabyStepGiantStepNew
    \/ \E c \in Threads : ConcurrentDiscreteLog(c)
    \/ \E c \in Threads : ConcurrentDecryptExponent(c)
    \/ \E c \in Threads : DiscreteLogHit(c)
    \/ \E c \in Threads : DiscreteLogGiantStep(c)
    \/ \E c \in Threads : ConcurrentReturn(c)

SpecConcurrent == InitConcurrent /\ [][NextConcurrent]_vars

\* C21: discrete_log and decrypt_exponent never change the shared table, m or
\* inverse_point once built, and under every interleaving of the calls of two
\* threads a call returns the value discrete_log returns for its input when
\* it runs alone on that table.
C21_SharedTableReadOnly ==
    [][/\ bsgs.built => bsgs' = bsgs
       /\ \A c \in Threads :
            calls'[c].pc = "returned" => calls'[c].ret = discrete_log(bsgs', calls'[c].v)]_vars

C21_Witness ==
    /\ calls[1].pc = "loop" /\ calls[1].i >= 1
    /\ calls[2].pc = "loop" /\ calls[2].i >= 1
    /\ calls[1].v # calls[2].v
    /\ calls[1].i # calls[2].i

(* ------- decrypt, decrypt_exponent and decrypt_exponent_slow (secret.rs) ------- *)
\* one ciphertext and its three decryptions; the table is built before the run starts
NoRecover == [pc |-> "off", sk |-> [generator |-> 0, scalar |-> 0], k |-> 0,
              cipher |-> NoCipher, dec |-> 0,
              slow |-> [m |-> 0, i |-> 0, a |-> 0, ret |-> 0]]

\* the ciphertext (k*g, x*g + k*pk) for pk = scalar * g
RecoverEncrypt ==
    /\ eg.pc = "off"
    /\ bsgs.built
    /\ eg' = [eg EXCEPT !.cipher = encrypt_exponent(PublicKeyFrom(eg.sk), x, eg.k),
                        !.pc = "decrypt"]
    /\ UNCHANGED <<q, base, bsgs, x, calls, walletVars>>

\* SecretKey::decrypt(&c): the group element of the message
RecoverDecrypt ==
    /\ eg.pc = "decrypt"
    /\ eg' = [eg EXCEPT !.dec = decrypt(eg.sk, eg.cipher).value, !.pc = "exponent"]
    /\ UNCHANGED <<q, base, bsgs, x, calls, walletVars>>

\* SecretKey::decrypt_exponent(&c, &bsgs): decrypt, then enter bsgs.discrete_log(&dec)
RecoverDecryptExponent ==
    /\ eg.pc = "exponent"
    /\ calls[1].pc = "idle"
    /\ LET dec == decrypt(eg.sk, eg.cipher).value
       IN  calls' = [calls EXCEPT ![1] = [pc |-> "loop", v |-> dec, y |-> dec, i |-> 0, ret |-> 0]]
    /\ eg' = [eg EXCEPT !.pc = "slow"]
    /\ UNCHANGED <<q, base, bsgs, x, walletVars>>

\* mutant of DecryptExponentSlowCall: the counter starts at one
DecryptExponentSlowCallFromOne ==
    /\ eg.pc = "slow"
    /\ calls[1].pc = "returned"
    /\ LET m == decrypt(eg.sk, eg.cipher).value
       IN  eg' = [eg EXCEPT !.slow = [m |-> m, i |-> zero_point, a |-> 1, ret |-> 0],
                            !.pc = "slow_loop"]
    /\ UNCHANGED <<q, base, bsgs, x, calls, walletVars>>

\* SecretKey::decrypt_exponent_slow(&c) up to its loop: m = decrypt(c).value, a = 0, i = zero_point
DecryptExponentSlowCall ==
    /\ eg.pc = "slow"
    /\ calls[1].pc = "returned"
    /\ LET m == decrypt(eg.sk, eg.cipher).value
       IN  eg' = [eg EXCEPT !.slow = [m |-> m, i |-> zero_point, a |-> 0, ret |-> 0],
                            !.pc = "slow_loop"]
    /\ UNCHANGED <<q, base, bsgs, x, calls, walletVars>>

\* while m != i: i = i + generator, a = a + 1 in the scalar field
DecryptExponentSlowStep ==
    /\ eg.pc = "slow_loop"
    /\ eg.slow.m # eg.slow.i
    /\ eg' = [eg EXCEPT !.slow.i = plus_point(eg.slow.i, eg.sk.generator),
                        !.slow.a = (eg.slow.a + 1) % q]
    /\ UNCHANGED <<q, base, bsgs, x, calls, walletVars>>

\* m = i: Value::new(a) is returned
DecryptExponentSlowReturn ==
    /\ eg.pc = "slow_loop"
    /\ eg.slow.m = eg.slow.i
    /\ eg' = [eg EXCEPT !.slow.ret = eg.slow.a, !.pc = "done"]
    /\ UNCHANGED <<q, base, bsgs, x, calls, walletVars>>

InitRecover ==
    /\ q \in 2..MaxOrder
    /\ base \in 0..(q - 1)
    /\ x \in 0..(q - 1)
    /\ bsgs = NoBsgs
    /\ calls = [c \in {1} |-> Idle]
    /\ \E s \in {0, 1, MaxScalar}, k \in 0..MaxRand :
          eg = [NoRecover EXCEPT !.sk = [generator |-> base, scalar |-> s % q], !.k = k]
    /\ tx = NoTx
    /\ idr = NoIdRequest
    /\ cr = NoCredential
    /\ BoundaryOff

NextRecover ==
    \/ BabyStepGiantStepNew
    \/ RecoverEncrypt
    \/ RecoverDecrypt
    \/ RecoverDecryptExponent
    \/ DiscreteLogHit(1)
    \/ DiscreteLogGiantStep(1)
    \/ DecryptExponentSlowCall
    \/ DecryptExponentSlowStep
    \/ DecryptExponentSlowReturn

SpecRecover == InitRecover /\ [][NextRecover]_vars

\* the three results of the run, for amounts below max_x and tables of size at most max_m:
\* decrypt gives x*g, decrypt_exponent and decrypt_exponent_slow give x
Recovered(max_x, max_m) ==
    (x < max_x /\ bsgs.m <= max_m)
        => /\ eg.pc \in {"exponent", "slow", "slow_loop", "done"} => eg.dec = mul_by_scalar(base, x)
           /\ calls[1].pc = "returned" => calls[1].ret = x
           /\ eg.pc = "done" => (eg.slow.ret = x /\ eg.slow.ret = calls[1].ret)

RECURSIVE put_uint(_, _)
put_uint(n, w) == IF w = 0 THEN <<>> ELSE Append(put_uint(n \div 256, w - 1), n % 256)

\* body.put(&u8)
put_u8(n) == put_uint(n, 1)

\* body.put(&u32)
put_u32(n) == put_uint(n, 4)

\* body.put(&u64)
put_u64(n) == put_uint(n, 8)

\* body.put(&AccountAddress): the 32 bytes of the address
put_address(addr) == addr

\* body.put(&Amount): the amount as a u64
put_amount(amt) == put_u64(amt)

\* Sha256::new().chain(&body).finalize(): one digest over exactly the bytes given
Sha256(bytes) == [sha256 |-> bytes]

HexDigits == <<"0", "1", "2", "3", "4", "5", "6", "7", "8", "9", "a", "b", "c", "d", "e", "f">>

\* hex::encode: two lower-case digits per byte
hex_encode(bytes) ==
    [n \in 1..(2 * Len(bytes)) |->
        LET byte == bytes[(n + 1) \div 2]
        IN  IF n % 2 = 1 THEN HexDigits[(byte \div 16) + 1] ELSE HexDigits[(byte % 16) + 1]]

\* mutant of make_transaction_bytes: payload_size is written after expiry
make_transaction_bytes_size_after_expiry(ctx, payload_bytes) ==
    LET payload_size == Len(payload_bytes)
        body == put_address(ctx.from) \o put_u64(ctx.nonce) \o put_u64(ctx.energy)
                    \o put_u64(ctx.expiry) \o put_u32(payload_size) \o payload_bytes
    IN  [hash |-> Sha256(body), body |-> body]

(* ------------------- make_transaction_bytes (lib.rs) ------------------- *)
make_transaction_bytes(ctx, payload_bytes) ==
    LET payload_size == Len(payload_bytes)
        body == put_address(ctx.from) \o put_u64(ctx.nonce) \o put_u64(ctx.energy)
                    \o put_u32(payload_size) \o put_u64(ctx.expiry) \o payload_bytes
    IN  [hash |-> Sha256(body), body |-> body]

(* ---------------------- make_signatures (lib.rs) ----------------------- *)
\* ed25519 Keypair { public, secret }.sign(msg): determined by the key pair and the message
ed25519_sign(public, secret, msg) == [signed_by |-> public, secret |-> secret, msg |-> msg]

\* the least element of a non-empty set of indices (BTreeMap iteration order)
first_key(S) == CHOOSE k \in S : \A k2 \in S : k <= k2

\* the inner loop: one signature per (key_index, kp) of one credential
RECURSIVE sign_credential(_, _, _, _)
sign_credential(map, todo, cred_sigs, hash) ==
    IF todo = {}
    THEN cred_sigs
    ELSE LET key_index == first_key(todo)
             kp == map[key_index]
             signature == ed25519_sign(kp.public, kp.secret, hash)
         IN  sign_credential(map, todo \ {key_index},
                             insert(cred_sigs, key_index, [sig |-> signature]), hash)

\* the outer loop: one map of signatures per (cred_index, map)
RECURSIVE sign_account(_, _, _, _)
sign_account(keys, todo, out, hash) ==
    IF todo = {}
    THEN out
    ELSE LET cred_index == first_key(todo)
             map == keys[cred_index]
             cred_sigs == sign_credential(map.keys, DOMAIN map.keys, <<>>, hash)
         IN  sign_account(keys, todo \ {cred_index}, insert(out, cred_index, cred_sigs), hash)

\* mutant of make_signatures: only the first credential signs
make_signatures_first_credential(keys, hash) ==
    Ok([signatures |-> sign_account(keys.keys, {ci \in DOMAIN keys.keys : ci = first_key(DOMAIN keys.keys)},
                                    <<>>, hash)])

make_signatures(keys, hash) ==
    Ok([signatures |-> sign_account(keys.keys, DOMAIN keys.keys, <<>>, hash)])

(* --------------------------- try_get (lib.rs) -------------------------- *)
\* try_get(&v, fname): the decoded field, the error naming the absent field,
\* or the error of from_value when the field does not decode
try_get(input, fname) ==
    IF fname \in input.absent
    THEN Err(<<"Field ", fname, " not present, but should be.">>)
    ELSE IF fname \in input.undecodable
    THEN Err(<<"invalid type for ", fname>>)
    ELSE Ok(input[fname])

\* the error of the first of the fields, in the order the code reads them,
\* whose try_get fails
RECURSIVE first_absent(_, _)
first_absent(input, fnames) ==
    IF fnames = <<>> THEN None
    ELSE IF ~try_get(input, Head(fnames)).ok
         THEN Some(try_get(input, Head(fnames)).err)
         ELSE first_absent(input, Tail(fnames))

\* from_str(input)?: the JSON value of the input string, or the parse error
from_str(input) ==
    IF input.json THEN Ok(input) ELSE Err("expected value at line 1 column 1")

\* from_value(v.clone())? for TransferContext: serde reports the first absent
\* field; `to` is an Option and may be absent
from_value_ctx(input) ==
    LET missing == {f \in {"from", "expiry", "nonce", "keys", "energy"} :
                        f \in input.absent \cup input.undecodable}
    IN  IF missing = {} THEN Ok(input)
        ELSE Err(<<"missing or invalid field ", CHOOSE f \in missing : TRUE>>)

\* the error of from_str, of from_value for the context (when the entry point
\* reads one), or of the first failing try_get; None when all of them succeed
parse_error(input, with_ctx, fnames) ==
    IF ~from_str(input).ok THEN Some(from_str(input).err)
    ELSE IF with_ctx /\ ~from_value_ctx(input).ok THEN Some(from_value_ctx(input).err)
    ELSE first_absent(input, fnames)

\* the same call with another input string
WithInput(call, json, absent) ==
    [call EXCEPT !.input.json = json, !.input.absent = absent]

\* the same call with fields of the wrong JSON type
WithUndecodable(call, fnames) ==
    [call EXCEPT !.input.undecodable = fnames]

(* ------------------------ the transfer builders ------------------------ *)
\* mutant of transfer_payload: the amount is written as a u32
transfer_payload_u32_amount(ctx_to, amount) == put_u8(3) \o put_address(ctx_to) \o put_u32(amount)

\* create_transfer_aux: payload [3][recipient][amount]
transfer_payload(ctx_to, amount) == put_u8(3) \o put_address(ctx_to) \o put_amount(amount)

\* create_encrypted_transfer_aux: payload_bytes [16][recipient][to_bytes(payload)]
encrypted_transfer_payload(ctx_to, data_bytes) == put_u8(16) \o put_address(ctx_to) \o data_bytes

\* create_pub_to_sec_transfer_aux: payload [17][amount]
pub_to_sec_payload(amount) == put_u8(17) \o put_amount(amount)

\* mutant of sec_to_pub_payload: the tag of the encrypted transfer
sec_to_pub_payload_tag_16(data_bytes) == put_u8(16) \o data_bytes

\* create_sec_to_pub_transfer_aux: payload_bytes [18][to_bytes(payload)]
sec_to_pub_payload(data_bytes) == put_u8(18) \o data_bytes

\* encrypt_amount_with_fixed_randomness(&global_context, amount)
encrypt_amount_with_fixed_randomness(amount) == [fixed_randomness_encryption_of |-> amount]

\* the fields create_encrypted_transfer_aux reads after the context, in its order
EncryptedTransferFields ==
    <<"global", "amount", "senderSecretKey", "receiverPublicKey", "inputEncryptedAmount">>

\* the fields create_sec_to_pub_transfer_aux reads after the context, in its order
SecToPubFields == <<"global", "amount", "senderSecretKey", "inputEncryptedAmount">>

\* the builder stops with Err(msg): nothing but the error is left
Bail(msg) == [tx EXCEPT !.pc = "done", !.result = Err(msg)]

\* the builder has the transaction: (hash, body) = make_transaction_bytes(&ctx, &payload)
Assembled(payload) ==
    LET hb == make_transaction_bytes(tx.ctx, payload)
    IN  [tx EXCEPT !.pc = "sign", !.payload = payload, !.hash = Some(hb.hash), !.body = hb.body]

\* create_transfer_aux up to make_transaction_bytes
CreateTransfer ==
    /\ tx.pc = "start" /\ tx.op = "create_transfer"
    /\ tx' = IF parse_error(tx.input, TRUE, <<>>).some
             THEN Bail(parse_error(tx.input, TRUE, <<>>).val)
             ELSE IF ~tx.ctx.to.some
             THEN Bail("to account should be present")
             ELSE IF ~try_get(tx.input, "amount").ok
             THEN Bail(try_get(tx.input, "amount").err)
             ELSE LET payload == transfer_payload(tx.ctx.to.val, tx.amount)
                  IN  IF Len(payload) # 41
                      THEN [tx EXCEPT !.pc = "panic", !.payload = payload]
                      ELSE Assembled(payload)
    /\ UNCHANGED <<cryptoVars, idr, cr, boundaryVars>>

\* create_encrypted_transfer_aux up to make_transaction_bytes
CreateEncryptedTransfer ==
    /\ tx.pc = "start" /\ tx.op = "create_encrypted_transfer"
    /\ tx' = IF parse_error(tx.input, TRUE, <<>>).some
             THEN Bail(parse_error(tx.input, TRUE, <<>>).val)
             ELSE IF ~tx.ctx.to.some
             THEN Bail("to account should be present")
             ELSE IF first_absent(tx.input, EncryptedTransferFields).some
             THEN Bail(first_absent(tx.input, EncryptedTransferFields).val)
             ELSE IF ~tx.data.some
                  THEN [Bail("Could not produce payload.") EXCEPT !.rng = 1]
                  ELSE [Assembled(encrypted_transfer_payload(tx.ctx.to.val, tx.data.val.bytes))
                            EXCEPT !.rng = 1]
    /\ UNCHANGED <<cryptoVars, idr, cr, boundaryVars>>

\* create_pub_to_sec_transfer_aux up to make_transaction_bytes
CreatePubToSecTransfer ==
    /\ tx.pc = "start" /\ tx.op = "create_pub_to_sec_transfer"
    /\ tx' = IF parse_error(tx.input, TRUE, <<"amount", "global">>).some
             THEN Bail(parse_error(tx.input, TRUE, <<"amount", "global">>).val)
             ELSE Assembled(pub_to_sec_payload(tx.amount))
    /\ UNCHANGED <<cryptoVars, idr, cr, boundaryVars>>

\* create_sec_to_pub_transfer_aux going on with an empty payload when
\* make_sec_to_pub_transfer_data returns None
CreateSecToPubTransferBestEffort ==
    /\ tx.pc = "start" /\ tx.op = "create_sec_to_pub_transfer"
    /\ tx' = IF parse_error(tx.input, TRUE, SecToPubFields).some
             THEN Bail(parse_error(tx.input, TRUE, SecToPubFields).val)
             ELSE IF ~tx.data.some
             THEN [Assembled(<<18>>) EXCEPT !.rng = 1]
             ELSE [Assembled(sec_to_pub_payload(tx.data.val.bytes)) EXCEPT !.rng = 1]
    /\ UNCHANGED <<cryptoVars, idr, cr, boundaryVars>>

\* create_sec_to_pub_transfer_aux up to make_transaction_bytes
CreateSecToPubTransfer ==
    /\ tx.pc = "start" /\ tx.op = "create_sec_to_pub_transfer"
    /\ tx' = IF parse_error(tx.input, TRUE, SecToPubFields).some
             THEN Bail(parse_error(tx.input, TRUE, SecToPubFields).val)
             ELSE IF ~tx.data.some
             THEN [Bail("Could not produce payload.") EXCEPT !.rng = 1]
             ELSE [Assembled(sec_to_pub_payload(tx.data.val.bytes)) EXCEPT !.rng = 1]
    /\ UNCHANGED <<cryptoVars, idr, cr, boundaryVars>>

\* let signatures = make_signatures(ctx.keys, &hash)?
SignTransaction ==
    /\ tx.pc = "sign"
    /\ LET signed == make_signatures(tx.ctx.keys, tx.hash.val)
       IN  tx' = IF signed.ok
                 THEN [tx EXCEPT !.pc = "respond", !.signatures = Some(signed.val)]
                 ELSE Bail(signed.err)
    /\ UNCHANGED <<cryptoVars, idr, cr, boundaryVars>>

\* the json! response of the builder and Ok(to_string(&response)?)
Respond ==
    /\ tx.pc = "respond"
    /\ LET common == [signatures |-> tx.signatures.val, transaction |-> hex_encode(tx.body)]
           response ==
               CASE tx.op = "create_transfer" -> common
                 [] tx.op = "create_pub_to_sec_transfer" ->
                        [signatures |-> common.signatures, transaction |-> common.transaction,
                         addedSelfEncryptedAmount |-> encrypt_amount_with_fixed_randomness(tx.amount)]
                 [] OTHER ->
                        [signatures |-> common.signatures, transaction |-> common.transaction,
                         remaining |-> tx.data.val.remaining_amount]
       IN  tx' = [tx EXCEPT !.pc = "done", !.result = Ok(response)]
    /\ UNCHANGED <<cryptoVars, idr, cr, boundaryVars>>

(* ----------------------- inputs of the builders ------------------------ *)
\* an AccountAddress: 32 bytes
Address(b) == [n \in 1..32 |-> (b + n) % 256]

Addresses == {Address(0), Address(200)}

\* a key pair of credential ci, key ki (KeyPairDef)
KeyPair(ci, ki) == [public |-> <<"public", ci, ki>>, secret |-> <<"secret", ci, ki>>]

\* the AccountKeys value whose credential ci holds the key indices shape[ci], with
\* signature threshold cred_threshold per credential and threshold for the account
AccountKeysOf(shape, cred_threshold, threshold) ==
    [keys |-> [ci \in DOMAIN shape |-> [keys |-> [ki \in shape[ci] |-> KeyPair(ci, ki)],
                                        threshold |-> cred_threshold]],
     threshold |-> threshold]

\* the account keys the builders are run with: the single-key account the wallet
\* supports, and an account of two credentials
KeysSamples ==
    {AccountKeysOf([ci \in {0} |-> {0}], 1, 1),
     AccountKeysOf([ci \in {0, 1} |-> IF ci = 0 THEN {0, 1} ELSE {1}], 2, 1)}

\* results of make_transfer_data / make_sec_to_pub_transfer_data: None, or the
\* data with its serialization and the remaining amount
DataSamples ==
    {None,
     Some([bytes |-> <<3, 7>>, remaining_amount |-> "remaining_1"]),
     Some([bytes |-> <<18, 16, 17, 3, 0, 255>>, remaining_amount |-> "remaining_2"])}

AmountSamples == {1, 16909060}

\* the amounts the input encrypted amount decrypts to
BalanceSamples == {0, 16909060}

\* encrypted_transfers::make_transfer_data and make_sec_to_pub_transfer_data:
\* None when the amount exceeds the decrypted balance, else the outcome of the
\* proof construction
make_transfer_data(balance, amount, proof) ==
    IF amount > balance THEN None ELSE proof

\* the same call with an input encrypted amount that decrypts to balance
WithBalance(call, balance) ==
    [call EXCEPT !.input.inputEncryptedAmount = [decrypts_to |-> balance]]

Ops == {"create_transfer", "create_encrypted_transfer",
        "create_pub_to_sec_transfer", "create_sec_to_pub_transfer"}

\* the state of a builder on entry
TxStart(op, ctx, amount, data) ==
    [pc |-> "start", op |-> op, ctx |-> ctx, amount |-> amount, data |-> data,
     input |-> [json |-> TRUE, absent |-> {}, undecodable |-> {}, global |-> "global", amount |-> amount,
                senderSecretKey |-> "sender_sk", receiverPublicKey |-> "receiver_pk",
                inputEncryptedAmount |-> [decrypts_to |-> 0]],
     payload |-> <<>>, hash |-> None, body |-> <<>>, signatures |-> None,
     result |-> Pending, rng |-> 0]

\* input strings with a field missing
TxAbsentSamples == {{}, {"nonce"}, {"amount"}, {"global", "amount"}, {"inputEncryptedAmount"}}

InitTx ==
    /\ \E op \in Ops, from \in Addresses, to \in {None} \cup {Some(a) : a \in Addresses},
          nonce \in {1, 258}, energy \in {0, 16909060}, expiry \in {2, 65539},
          keys \in KeysSamples, amount \in AmountSamples, proof \in DataSamples,
          balance \in BalanceSamples, json \in BOOLEAN, absent \in TxAbsentSamples,
          undecodable \in {{}, {"amount"}, {"keys"}, {"senderSecretKey"}} :
          /\ op \in {"create_pub_to_sec_transfer", "create_sec_to_pub_transfer"} => to = None
          /\ op \in {"create_transfer", "create_pub_to_sec_transfer"} =>
                (proof = None /\ balance = 0)
          /\ ~json => absent = {}
          /\ undecodable # {} => (json /\ absent = {})
          /\ (~json \/ absent # {} \/ undecodable # {}) =>
                (nonce = 1 /\ energy = 0 /\ expiry = 2 /\ from = Address(0))
          /\ tx = WithUndecodable(WithBalance(
                     WithInput(TxStart(op, [from |-> from, to |-> to, expiry |-> expiry,
                                            nonce |-> nonce, keys |-> keys, energy |-> energy],
                                       amount, make_transfer_data(balance, amount, proof)),
                               json, absent), balance), undecodable)
    /\ q = 2 /\ base = 0 /\ x = 0 /\ bsgs = NoBsgs /\ calls = <<>> /\ eg = NoElGamal
    /\ idr = NoIdRequest
    /\ cr = NoCredential
    /\ BoundaryOff

NextTx ==
    \/ CreateTransfer
    \/ CreateEncryptedTransfer
    \/ CreatePubToSecTransfer
    \/ CreateSecToPubTransfer
    \/ SignTransaction
    \/ Respond

SpecTx == InitTx /\ [][NextTx]_vars

\* make_signatures applied to every AccountKeys value and a hash
InitSign ==
    /\ \E cs \in SUBSET (0..MaxCred), payload \in {<<17>>, <<18, 0>>},
          cred_threshold \in 1..MaxThreshold, threshold \in 1..MaxThreshold :
        \E shape \in [cs -> SUBSET (0..MaxKey)] :
          LET keys == AccountKeysOf(shape, cred_threshold, threshold)
              ctx == [from |-> Address(0), to |-> None, expiry |-> 2, nonce |-> 1,
                      keys |-> keys, energy |-> 0]
          IN  tx = [TxStart("create_pub_to_sec_transfer", ctx, 1, None)
                        EXCEPT !.pc = "sign", !.payload = payload,
                               !.hash = Some(make_transaction_bytes(ctx, payload).hash),
                               !.body = make_transaction_bytes(ctx, payload).body]
    /\ q = 2 /\ base = 0 /\ x = 0 /\ bsgs = NoBsgs /\ calls = <<>> /\ eg = NoElGamal
    /\ idr = NoIdRequest
    /\ cr = NoCredential
    /\ BoundaryOff

NextSign == SignTransaction

SpecSign == InitSign /\ [][NextSign]_vars

(* ------------------------------ claims --------------------------------- *)
\* the builder has assembled a transaction body
TxAssembled == tx.pc \in {"sign", "respond"} \/ (tx.pc = "done" /\ tx.result.ok)

\* the unsigned integer a big-endian byte string encodes
RECURSIVE from_be(_)
from_be(bytes) ==
    IF bytes = <<>> THEN 0
    ELSE from_be(SubSeq(bytes, 1, Len(bytes) - 1)) * 256 + bytes[Len(bytes)]

\* C3: the body is from_address (32 bytes), nonce (8), energy (8), payload_size (4),
\* expiry (8), payload in that order; its length is 60 + |payload|, payload_size
\* is the number of payload bytes after the header, and the hash is the digest
\* of exactly that body.
C3_BodyLayout ==
    TxAssembled =>
        /\ Len(tx.body) = 60 + Len(tx.payload)
        /\ SubSeq(tx.body, 1, 32) = tx.ctx.from
        /\ from_be(SubSeq(tx.body, 33, 40)) = tx.ctx.nonce
        /\ from_be(SubSeq(tx.body, 41, 48)) = tx.ctx.energy
        /\ from_be(SubSeq(tx.body, 49, 52)) = Len(tx.body) - 60
        /\ from_be(SubSeq(tx.body, 53, 60)) = tx.ctx.expiry
        /\ SubSeq(tx.body, 61, Len(tx.body)) = tx.payload
        /\ tx.hash = Some(Sha256(tx.body))

C3_Witness ==
    /\ tx.pc = "sign" /\ tx.op = "create_encrypted_transfer"
    /\ Len(tx.body) = 99
    /\ tx.ctx.nonce = 258 /\ tx.ctx.energy = 16909060 /\ tx.ctx.expiry = 65539
    /\ tx.body[39] = 1 /\ tx.body[40] = 2 /\ tx.body[52] = 39

\* C4: whenever create_transfer reaches payload construction, the payload
\* [3][recipient][amount] is 41 bytes long and the assertion does not fail.
C4_TransferPayloadSize ==
    /\ tx.pc # "panic"
    /\ (tx.op = "create_transfer" /\ TxAssembled) => Len(tx.payload) = 41

C4_Witness ==
    /\ tx.op = "create_transfer" /\ tx.pc = "sign"
    /\ tx.amount = 16909060 /\ tx.ctx.to = Some(Address(200))

\* the transaction type tag of a builder
TypeTag(op) ==
    CASE op = "create_transfer" -> 3
      [] op = "create_encrypted_transfer" -> 16
      [] op = "create_pub_to_sec_transfer" -> 17
      [] op = "create_sec_to_pub_transfer" -> 18

\* C5: the byte right after the 60-byte header is 3 for create_transfer, 16 for
\* create_encrypted_transfer, 17 for create_pub_to_sec_transfer and 18 for
\* create_sec_to_pub_transfer, and never a tag of another builder.
C5_TypeTags ==
    TxAssembled =>
        /\ tx.body[61] = TypeTag(tx.op)
        /\ \A other \in Ops \ {tx.op} : tx.body[61] # TypeTag(other)

C5_Witness ==
    /\ tx.op = "create_sec_to_pub_transfer" /\ tx.pc = "done" /\ tx.result.ok
    /\ tx.body[61] = 18 /\ tx.body[62] = 3

\* C6: make_signatures succeeds and returns one signature over the raw hash per
\* configured (credential index, key index) pair, none missing and none extra,
\* whatever the thresholds are.
C6_SignsEveryKey ==
    tx.pc # "sign" =>
        /\ tx.pc = "respond"
        /\ LET sigs == tx.signatures.val.signatures
               keys == tx.ctx.keys.keys
           IN  /\ DOMAIN sigs = DOMAIN keys
               /\ \A ci \in DOMAIN keys :
                     /\ DOMAIN sigs[ci] = DOMAIN keys[ci].keys
                     /\ \A ki \in DOMAIN keys[ci].keys :
                           /\ sigs[ci][ki].sig.signed_by = KeyPair(ci, ki).public
                           /\ sigs[ci][ki].sig.msg = tx.hash.val

C6_Witness ==
    /\ tx.pc = "respond"
    /\ DOMAIN tx.signatures.val.signatures = {0, 1}
    /\ DOMAIN tx.signatures.val.signatures[0] = {0, 1}
    /\ DOMAIN tx.signatures.val.signatures[1] = {}
    /\ tx.ctx.keys.threshold = 1 /\ tx.ctx.keys.keys[0].threshold = 1
    /\ tx.hash.val.sha256[61] = 18

\* an encrypted transfer or a secret-to-public transfer whose input was read
\* and whose payload construction returned None
PayloadFailed ==
    /\ tx.pc # "off"
    /\ tx.op \in {"create_encrypted_transfer", "create_sec_to_pub_transfer"}
    /\ ~parse_error(tx.input, TRUE, IF tx.op = "create_encrypted_transfer"
                                    THEN EncryptedTransferFields ELSE SecToPubFields).some
    /\ tx.op = "create_encrypted_transfer" => tx.ctx.to.some
    /\ ~tx.data.some

\* C18: when the payload construction of create_encrypted_transfer or
\* create_sec_to_pub_transfer returns None the call ends with the error
\* "Could not produce payload." and nothing else: no body is assembled, no hash
\* is made or signed and the result holds no transaction, signatures or
\* remaining amount
C18_NoPayloadNoTransaction ==
    PayloadFailed =>
        /\ tx.pc \in {"start", "done"}
        /\ tx.body = <<>> /\ tx.payload = <<>>
        /\ ~tx.hash.some /\ ~tx.signatures.some
        /\ tx.pc = "done" => tx.result = Err("Could not produce payload.")

C18_Witness ==
    /\ PayloadFailed
    /\ tx.op = "create_sec_to_pub_transfer"
    /\ tx.amount > tx.input.inputEncryptedAmount.decrypts_to
    /\ tx.pc = "done"
    /\ tx.result = Err("Could not produce payload.")

(* ------------------ the PRF (dodis_yampolskiy_prf) --------------------- *)
\* prf::SecretKey::prf_exponent(n): the inverse of key + n in the scalar field,
\* an error when key + n has no inverse
prf_exponent(key, n) ==
    LET s == (key + n) % PrfModulus
    IN  IF \E inv \in 1..(PrfModulus - 1) : (s * inv) % PrfModulus = 1
        THEN Ok(CHOOSE inv \in 1..(PrfModulus - 1) : (s * inv) % PrfModulus = 1)
        ELSE Err("prf exponent undefined")

\* prf::SecretKey::prf(g, n): g raised to prf_exponent(n)
prf(key, n) ==
    IF prf_exponent(key, n).ok
    THEN Ok([reg_id_exponent |-> prf_exponent(key, n).val])
    ELSE Err("prf undefined")

\* AccountAddress::new(&reg_id)
AccountAddressNew(reg_id) == [address_of |-> reg_id]

(* ----------- create_id_request_and_private_data_aux (lib.rs) ----------- *)
\* (l - 1).try_into().unwrap_or(255): conversion of a usize to u8
try_into_u8_or(n, default) == IF n <= 255 THEN n ELSE default

\* max(a, b) of std::cmp
max(a, b) == IF a >= b THEN a ELSE b

\* mutant of ar_threshold: l - 1 is cast with `as u8`, which wraps
ar_threshold_wrapping(l) == max((l - 1) % 256, 1)

\* mutant of ar_threshold: the lower bound 1 is not applied
ar_threshold_without_floor(l) == try_into_u8_or(l - 1, 255)

\* Threshold(max((l - 1).try_into().unwrap_or(255), 1))
ar_threshold(l) == max(try_into_u8_or(l - 1, 255), 1)

IdRequestBail(msg) == [idr EXCEPT !.pc = "done", !.result = Err(msg)]

\* from_str and the three try_get calls: ipInfo, global, arsInfos
IdRequestParse ==
    /\ idr.pc = "start"
    /\ LET missing == parse_error(idr.input, FALSE, <<"ipInfo", "global", "arsInfos">>)
       IN  idr' = IF missing.some
                  THEN IdRequestBail(missing.val)
                  ELSE [idr EXCEPT !.pc = "threshold"]
    /\ UNCHANGED <<cryptoVars, tx, cr, boundaryVars>>

\* the threshold block placed after the secrets are generated
IdRequestThresholdAfterSecrets ==
    /\ idr.pc = "threshold"
    /\ LET l == Cardinality(idr.input.arsInfos)
       IN  idr' = IF ~(l > 0)
                  THEN [IdRequestBail("ArInfos should have at least 1 anonymity revoker.")
                           EXCEPT !.rng = 3, !.prf_key = Some(0),
                                  !.id_cred = Some("id_cred_sec"),
                                  !.keys = Some([k \in {0} |-> KeyPair(0, 0)])]
                  ELSE [idr EXCEPT !.pc = "secrets", !.threshold = Some(ar_threshold(l))]
    /\ UNCHANGED <<cryptoVars, tx, cr, boundaryVars>>

\* the threshold block: ensure!(l > 0, ...) and the threshold
IdRequestThreshold ==
    /\ idr.pc = "threshold"
    /\ LET l == Cardinality(idr.input.arsInfos)
       IN  idr' = IF ~(l > 0)
                  THEN IdRequestBail("ArInfos should have at least 1 anonymity revoker.")
                  ELSE [idr EXCEPT !.pc = "secrets", !.threshold = Some(ar_threshold(l))]
    /\ UNCHANGED <<cryptoVars, tx, cr, boundaryVars>>

\* thread_rng, prf::SecretKey::generate, IdCredentials::generate and the
\* ed25519 key pair of the initial account
IdRequestGenerateSecrets ==
    /\ idr.pc = "secrets"
    /\ \E prf_key \in 0..(PrfModulus - 1) :
          idr' = [idr EXCEPT !.pc = "pio", !.rng = 3, !.prf_key = Some(prf_key),
                             !.id_cred = Some("id_cred_sec"),
                             !.keys = Some([k \in {0} |-> KeyPair(0, 0)])]
    /\ UNCHANGED <<cryptoVars, tx, cr, boundaryVars>>

\* account_holder::generate_pio(&context, threshold, &aci, &initial_acc_data):
\* None when a proof cannot be produced or, as the comment at the unwrap of
\* prf_exponent(0) says, when the registration ID cannot be generated
IdRequestGeneratePio ==
    /\ idr.pc = "pio"
    /\ \E proof_ok \in BOOLEAN :
          LET reg_id == prf(idr.prf_key.val, 0)
          IN  idr' = IF proof_ok /\ reg_id.ok
                     THEN [idr EXCEPT !.pc = "respond",
                                      !.pio = Some([reg_id |-> reg_id.val,
                                                    threshold |-> idr.threshold.val,
                                                    ars |-> idr.input.arsInfos])]
                     ELSE IdRequestBail("Generating the pre-identity object failed.")
    /\ UNCHANGED <<cryptoVars, tx, cr, boundaryVars>>

\* the address, the encryption secret key (prf_exponent(0).unwrap()) and the response
IdRequestRespond ==
    /\ idr.pc = "respond"
    /\ LET scalar == prf_exponent(idr.prf_key.val, 0)
           address == AccountAddressNew(idr.pio.val.reg_id)
       IN  idr' = IF ~scalar.ok
                  THEN [idr EXCEPT !.pc = "panic"]
                  ELSE [idr EXCEPT !.pc = "done",
                            !.result = Ok([idObjectRequest |-> idr.pio.val,
                                           privateIdObjectData |-> [prf_key |-> idr.prf_key.val,
                                                                    id_cred |-> idr.id_cred.val],
                                           initialAccountData |->
                                               [accountKeys |-> idr.keys.val,
                                                encryptionSecretKey |-> [scalar |-> scalar.val],
                                                accountAddress |-> address]])]
    /\ UNCHANGED <<cryptoVars, tx, cr, boundaryVars>>

\* the anonymity-revoker sets tried: 1..l for every size l up to MaxArs
IdRequestStart(absent, ars) ==
    [pc |-> "start",
     input |-> [json |-> TRUE, absent |-> absent, undecodable |-> {}, ipInfo |-> "ip_info", global |-> "global", arsInfos |-> ars],
     threshold |-> None, rng |-> 0, prf_key |-> None, id_cred |-> None, keys |-> None,
     pio |-> None, result |-> Pending]

InitIdRequest ==
    /\ \E l \in 0..MaxArs, absent \in {{}, {"ipInfo"}, {"global", "arsInfos"}, {"arsInfos"}} :
          /\ absent # {} => l = 1
          /\ idr \in {IdRequestStart(absent, 1..l)} \cup
                     {WithInput(IdRequestStart({}, 1..l), FALSE, {}) : z \in {l} \cap {1}} \cup
                     {WithUndecodable(IdRequestStart({}, 1..l), {"arsInfos"}) : z \in {l} \cap {1}}
    /\ q = 2 /\ base = 0 /\ x = 0 /\ bsgs = NoBsgs /\ calls = <<>> /\ eg = NoElGamal
    /\ tx = NoTx
    /\ cr = NoCredential
    /\ BoundaryOff

NextIdRequest ==
    \/ IdRequestParse
    \/ IdRequestThreshold
    \/ IdRequestGenerateSecrets
    \/ IdRequestGeneratePio
    \/ IdRequestRespond

SpecIdRequest == InitIdRequest /\ [][NextIdRequest]_vars

\* the threshold handed to the proof layer, once generate_pio has been called
HandedThreshold == idr.pio.val.threshold

\* the number of anonymity revokers of the call
RevokerCount == Cardinality(idr.input.arsInfos)

\* C7 as stated: for every non-empty revoker set of size l the threshold handed
\* to the proof layer is exactly max(1, l - 1).
C7_ThresholdIsMaxOneLMinusOne ==
    idr.pio.some => HandedThreshold = (IF RevokerCount - 1 >= 1 THEN RevokerCount - 1 ELSE 1)

\* C7 amended: the threshold handed to the proof layer is max(1, l - 1) for
\* l <= 256 and 255 for every larger revoker set.
C7_ThresholdSaturates ==
    idr.pio.some =>
        /\ RevokerCount <= 256 => HandedThreshold = (IF RevokerCount - 1 >= 1 THEN RevokerCount - 1 ELSE 1)
        /\ RevokerCount > 256 => HandedThreshold = 255

C7_Witness ==
    /\ idr.pio.some
    /\ RevokerCount = 257
    /\ HandedThreshold = 255

\* C8: past the revoker-set check the threshold t satisfies 1 <= t <= |revoker set|.
C8_ThresholdInRange ==
    idr.threshold.some =>
        /\ 1 <= idr.threshold.val
        /\ idr.threshold.val <= RevokerCount

C8_Witness ==
    /\ idr.threshold.some
    /\ RevokerCount = 1
    /\ idr.threshold.val = 1
    /\ idr.pc = "done" /\ idr.result.ok

\* the request parsed and its anonymity-revoker set is empty
EmptyRevokers ==
    /\ idr.pc # "off"
    /\ ~parse_error(idr.input, FALSE, <<"ipInfo", "global", "arsInfos">>).some
    /\ RevokerCount = 0

\* C11: an identity request whose anonymity-revoker set is empty never reaches
\* the generation of secrets: nothing is drawn from the random number
\* generator, no PRF key, identity credentials or key pair exist, and the call
\* ends with the error naming the missing anonymity revoker
C11_EmptyRevokersFailBeforeSecrets ==
    EmptyRevokers =>
        /\ idr.pc \in {"start", "threshold", "done"}
        /\ idr.rng = 0
        /\ ~idr.prf_key.some /\ ~idr.id_cred.some /\ ~idr.keys.some /\ ~idr.pio.some
        /\ idr.pc = "done" =>
              idr.result = Err("ArInfos should have at least 1 anonymity revoker.")

C11_Witness ==
    /\ EmptyRevokers
    /\ idr.pc = "done"
    /\ idr.result = Err("ArInfos should have at least 1 anonymity revoker.")
    /\ idr.rng = 0

(* --------------------- create_credential_aux (lib.rs) ------------------ *)
Tags == 0..MaxTag

\* the attribute value the identity object holds for a tag
AttributeValue(tag) == <<"attribute", tag>>

\* every sequence of tags of length at most MaxTags
TagLists == UNION {[1..n -> Tags] : n \in 0..MaxTags}

DuplicateReveal == "Cannot reveal an attribute more than once."

UnknownAttribute == "Cannot reveal an attribute which is not part of the attribute list."

CredentialBail(msg) == [cr EXCEPT !.pc = "done", !.result = Err(msg)]

\* from_str and the try_get calls, in the order of the code
CredentialParse ==
    /\ cr.pc = "start"
    /\ LET missing == parse_error(cr.input, FALSE, <<"expiry", "ipInfo", "arsInfos", "global",
                                               "identityObject", "privateIdObjectData",
                                               "revealedAttributes", "accountNumber">>)
       IN  cr' = IF missing.some
                 THEN CredentialBail(missing.val)
                 ELSE [cr EXCEPT !.pc = "cred_data"]
    /\ UNCHANGED <<cryptoVars, tx, idr, boundaryVars>>

\* the cred_data block: thread_rng, KeyPairDef::generate, threshold 1
CredentialData ==
    /\ cr.pc = "cred_data"
    /\ cr' = [cr EXCEPT !.pc = "policy", !.rng = 1,
                        !.cred_data = Some([keys |-> [k \in {0} |-> KeyPair(0, 0)], threshold |-> 1])]
    /\ UNCHANGED <<cryptoVars, tx, idr, boundaryVars>>

\* mutant of CredentialPolicyStep: a repeated tag overwrites its entry silently
CredentialPolicyStepOverwrites ==
    /\ cr.pc = "policy"
    /\ cr.next <= Len(cr.input.revealedAttributes)
    /\ LET tag == cr.input.revealedAttributes[cr.next]
           alist == cr.input.identityObject.alist
       IN  cr' = IF tag \in DOMAIN alist
                 THEN [cr EXCEPT !.policy_vec = insert(cr.policy_vec, tag, alist[tag]),
                                 !.next = cr.next + 1]
                 ELSE CredentialBail(UnknownAttribute)
    /\ UNCHANGED <<cryptoVars, tx, idr, boundaryVars>>

\* mutant of CredentialPolicyStep: a tag absent from the attribute list is skipped
CredentialPolicyStepSkipsUnknown ==
    /\ cr.pc = "policy"
    /\ cr.next <= Len(cr.input.revealedAttributes)
    /\ LET tag == cr.input.revealedAttributes[cr.next]
           alist == cr.input.identityObject.alist
       IN  cr' = IF tag \in DOMAIN alist
                 THEN IF tag \in DOMAIN cr.policy_vec
                      THEN [CredentialBail(DuplicateReveal)
                                EXCEPT !.policy_vec = insert(cr.policy_vec, tag, alist[tag])]
                      ELSE [cr EXCEPT !.policy_vec = insert(cr.policy_vec, tag, alist[tag]),
                                      !.next = cr.next + 1]
                 ELSE [cr EXCEPT !.next = cr.next + 1]
    /\ UNCHANGED <<cryptoVars, tx, idr, boundaryVars>>

\* one iteration of `for tag in tags`
CredentialPolicyStep ==
    /\ cr.pc = "policy"
    /\ cr.next <= Len(cr.input.revealedAttributes)
    /\ LET tag == cr.input.revealedAttributes[cr.next]
           alist == cr.input.identityObject.alist
       IN  cr' = IF tag \in DOMAIN alist
                 THEN IF tag \in DOMAIN cr.policy_vec
                      THEN [CredentialBail(DuplicateReveal)
                                EXCEPT !.policy_vec = insert(cr.policy_vec, tag, alist[tag])]
                      ELSE [cr EXCEPT !.policy_vec = insert(cr.policy_vec, tag, alist[tag]),
                                      !.next = cr.next + 1]
                 ELSE CredentialBail(UnknownAttribute)
    /\ UNCHANGED <<cryptoVars, tx, idr, boundaryVars>>

\* the policy, account_holder::create_credential(...)? and the address of the
\* new account; the credential's cred_id is the PRF value of acc_num
CredentialCreate ==
    /\ cr.pc = "policy"
    /\ cr.next > Len(cr.input.revealedAttributes)
    /\ \E proof_ok \in BOOLEAN :
          LET key == cr.input.privateIdObjectData.prf_key
              acc_num == cr.input.accountNumber
              cred_id == prf(key, acc_num)
          IN  cr' = IF proof_ok /\ cred_id.ok
                    THEN [cr EXCEPT !.pc = "respond",
                                    !.cdi = Some([cred_id |-> cred_id.val,
                                                  policy |-> [policy_vec |-> cr.policy_vec],
                                                  keys |-> cr.cred_data.val]),
                                    !.address = Some(AccountAddressNew(cred_id.val))]
                    ELSE CredentialBail("create_credential failed")
    /\ UNCHANGED <<cryptoVars, tx, idr, boundaryVars>>

\* the response with the encryption key of account number 0 whatever acc_num is
CredentialRespondAccountZero ==
    /\ cr.pc = "respond"
    /\ LET enc_key == prf_exponent(cr.input.privateIdObjectData.prf_key, 0)
           secret_key == [generator |-> cr.input.global.elgamal_generator,
                          scalar |-> enc_key.val]
       IN  cr' = IF ~enc_key.ok
                 THEN [cr EXCEPT !.pc = "panic"]
                 ELSE [cr EXCEPT !.pc = "done",
                           !.result = Ok([credential |-> [message_expiry |-> cr.input.expiry,
                                                          credential |-> cr.cdi.val],
                                          accountKeys |-> cr.cred_data.val,
                                          encryptionSecretKey |-> secret_key,
                                          encryptionPublicKey |-> PublicKeyFrom(secret_key),
                                          accountAddress |-> cr.address.val])]
    /\ UNCHANGED <<cryptoVars, tx, idr, boundaryVars>>

\* the encryption key (prf_exponent(acc_num).unwrap()) and the response
CredentialRespond ==
    /\ cr.pc = "respond"
    /\ LET enc_key == prf_exponent(cr.input.privateIdObjectData.prf_key, cr.input.accountNumber)
           secret_key == [generator |-> cr.input.global.elgamal_generator,
                          scalar |-> enc_key.val]
       IN  cr' = IF ~enc_key.ok
                 THEN [cr EXCEPT !.pc = "panic"]
                 ELSE [cr EXCEPT !.pc = "done",
                           !.result = Ok([credential |-> [message_expiry |-> cr.input.expiry,
                                                          credential |-> cr.cdi.val],
                                          accountKeys |-> cr.cred_data.val,
                                          encryptionSecretKey |-> secret_key,
                                          encryptionPublicKey |-> PublicKeyFrom(secret_key),
                                          accountAddress |-> cr.address.val])]
    /\ UNCHANGED <<cryptoVars, tx, idr, boundaryVars>>

CredentialStart(absent, present, tags, acc_num, prf_key) ==
    [pc |-> "start",
     input |-> [json |-> TRUE, absent |-> absent, undecodable |-> {}, expiry |-> 2, ipInfo |-> "ip_info", arsInfos |-> {1},
                global |-> [elgamal_generator |-> 3],
                identityObject |-> [alist |-> [t \in present |-> AttributeValue(t)]],
                privateIdObjectData |-> [prf_key |-> prf_key],
                revealedAttributes |-> tags, accountNumber |-> acc_num],
     rng |-> 0, cred_data |-> None, policy_vec |-> <<>>, next |-> 1,
     cdi |-> None, address |-> None, result |-> Pending]

InitCredential ==
    /\ \E present \in SUBSET Tags, tags \in TagLists, acc_num \in 0..MaxAccount,
          prf_key \in 0..(PrfModulus - 1),
          absent \in {{}, {"expiry"}, {"revealedAttributes", "accountNumber"}} :
          /\ absent # {} => (acc_num = 0 /\ prf_key = 1 /\ Len(tags) <= 1)
          /\ Len(tags) > 1 => (acc_num = 0 /\ prf_key = 1)
          /\ cr \in {CredentialStart(absent, present, tags, acc_num, prf_key)} \cup
                    {WithInput(CredentialStart({}, present, tags, acc_num, prf_key), FALSE, {}) :
                       z \in {acc_num} \cap {1}} \cup
                    {WithUndecodable(CredentialStart({}, present, tags, acc_num, prf_key),
                                     {"identityObject"}) : z \in {acc_num} \cap {1}}
    /\ q = MaxOrder /\ base = 0 /\ x = 0 /\ bsgs = NoBsgs /\ calls = <<>> /\ eg = NoElGamal
    /\ tx = NoTx
    /\ idr = NoIdRequest
    /\ BoundaryOff

NextCredential ==
    \/ CredentialParse
    \/ CredentialData
    \/ CredentialPolicyStep
    \/ CredentialCreate
    \/ CredentialRespond

SpecCredential == InitCredential /\ [][NextCredential]_vars

\* the call has ended
CredentialEnded == cr.pc = "done"

\* the input was parsed: no field is absent
CredentialParsed == cr.input.json /\ cr.input.absent = {} /\ cr.input.undecodable = {}

RevealedTags == cr.input.revealedAttributes

\* some tag occurs twice in the list of revealed tags
HasDuplicate ==
    \E m \in DOMAIN RevealedTags, n \in DOMAIN RevealedTags : m < n /\ RevealedTags[m] = RevealedTags[n]

\* some revealed tag is absent from the attribute list of the identity object
HasUnknown ==
    \E n \in DOMAIN RevealedTags : RevealedTags[n] \notin DOMAIN cr.input.identityObject.alist

\* position n is the first one that repeats an earlier tag or names an absent tag
FirstOffence(n) ==
    LET bad(m) == \/ RevealedTags[m] \notin DOMAIN cr.input.identityObject.alist
                  \/ \E k \in 1..(m - 1) : RevealedTags[k] = RevealedTags[m]
    IN  /\ n \in DOMAIN RevealedTags
        /\ bad(n)
        /\ \A m \in 1..(n - 1) : ~bad(m)

\* C9 as stated: every list of revealed tags in which some tag occurs twice
\* fails with the duplicate-reveal error.
C9_DuplicateAlwaysDuplicateError ==
    (CredentialEnded /\ CredentialParsed /\ HasDuplicate)
        => (~cr.result.ok /\ cr.result.err = DuplicateReveal)

\* C9 amended: a list in which some tag occurs twice fails and returns no
\* credential; the error is the duplicate-reveal error when the first offending
\* tag is in the attribute list, and the unknown-attribute error when it is not.
C9_DuplicateFails ==
    (CredentialEnded /\ CredentialParsed /\ HasDuplicate)
        => /\ ~cr.result.ok
           /\ ~cr.cdi.some
           /\ \A n \in DOMAIN RevealedTags :
                 FirstOffence(n) =>
                     cr.result.err = (IF RevealedTags[n] \in DOMAIN cr.input.identityObject.alist
                                      THEN DuplicateReveal ELSE UnknownAttribute)

C9_Witness ==
    /\ CredentialEnded /\ CredentialParsed
    /\ RevealedTags = <<0, 1, 1>>
    /\ DOMAIN cr.input.identityObject.alist = {0, 1}
    /\ cr.result = Err(DuplicateReveal)

\* C10 as stated: every list of revealed tags that contains a tag absent from
\* the attribute list fails with the unknown-attribute error.
C10_UnknownAlwaysUnknownError ==
    (CredentialEnded /\ CredentialParsed /\ HasUnknown)
        => (~cr.result.ok /\ cr.result.err = UnknownAttribute)

\* C10 amended: a list that contains a tag absent from the attribute list fails
\* and returns no credential; the error is the unknown-attribute error when the
\* first offending tag is absent from the list, and the duplicate-reveal error
\* when it repeats a tag of the list.
C10_UnknownFails ==
    (CredentialEnded /\ CredentialParsed /\ HasUnknown)
        => /\ ~cr.result.ok
           /\ ~cr.cdi.some
           /\ \A n \in DOMAIN RevealedTags :
                 FirstOffence(n) =>
                     cr.result.err = (IF RevealedTags[n] \notin DOMAIN cr.input.identityObject.alist
                                      THEN UnknownAttribute ELSE DuplicateReveal)

C10_Witness ==
    /\ CredentialEnded /\ CredentialParsed
    /\ RevealedTags = <<0, 2>>
    /\ DOMAIN cr.input.identityObject.alist = {0, 1}
    /\ cr.result = Err(UnknownAttribute)
    /\ DOMAIN cr.policy_vec = {0}

\* C17: a successful create_credential for account number n returns the
\* address AccountAddress::new(cred_id) of the credential it produced, whose
\* cred_id is the PRF value of n; the returned encryption secret key has the
\* ElGamal generator of the global context and the scalar prf_exponent(n), and
\* the returned encryption public key is the public key of that secret key
C17_CredentialKeysLinked ==
    (CredentialEnded /\ cr.result.ok) =>
        LET r == cr.result.val
            key == cr.input.privateIdObjectData.prf_key
            n == cr.input.accountNumber
            g == cr.input.global.elgamal_generator
        IN  /\ r.credential.credential.cred_id = prf(key, n).val
            /\ r.accountAddress = AccountAddressNew(r.credential.credential.cred_id)
            /\ r.encryptionSecretKey = [generator |-> g, scalar |-> prf_exponent(key, n).val]
            /\ r.encryptionPublicKey =
                   [generator |-> g, key |-> mul_by_scalar(g, r.encryptionSecretKey.scalar)]

C17_Witness ==
    /\ CredentialEnded /\ cr.result.ok
    /\ cr.input.accountNumber = 1
    /\ cr.input.revealedAttributes = <<>>
    /\ cr.result.val.encryptionSecretKey.scalar # 1
    /\ cr.result.val.encryptionPublicKey.key # 3

\* C12: a create_credential call that ends in the duplicate-reveal or the
\* unknown-attribute error has generated no account signature key pair and has
\* drawn nothing from the random number generator
C12_PolicyErrorBeforeSecrets ==
    (CredentialEnded /\ CredentialParsed /\ ~cr.result.ok
        /\ cr.result.err \in {DuplicateReveal, UnknownAttribute}) =>
        (cr.rng = 0 /\ ~cr.cred_data.some)

(* --------------------- generate_accounts_aux (lib.rs) ------------------ *)
\* try_get::<u8>(&v, fname): from_value fails on a number that is not a u8
try_get_u8(input, fname) ==
    IF ~try_get(input, fname).ok THEN try_get(input, fname)
    ELSE IF input[fname] \in 0..255 THEN Ok(input[fname])
    ELSE Err(<<"invalid value, expected u8: ", fname>>)

\* Result::unwrap_or(default)
unwrap_or(r, default) == IF r.ok THEN r.val ELSE default

AccountsBail(msg) == [ga EXCEPT !.pc = "done", !.result = Err(msg)]

\* the json! entry pushed for an account number
account_entry(generator, reg_id, enc_key) ==
    LET secret_key == [generator |-> generator, scalar |-> enc_key]
    IN  [encryptionSecretKey |-> secret_key,
         encryptionPublicKey |-> PublicKeyFrom(secret_key),
         accountAddress |-> AccountAddressNew(reg_id)]

\* from_str, the three try_get calls and try_get(&v, "start").unwrap_or(0)
AccountsParse ==
    /\ ga.pc = "start"
    /\ LET failed == parse_error(ga.input, FALSE,
                                 <<"global", "identityObject", "privateIdObjectData">>)
       IN  ga' = IF failed.some
                 THEN AccountsBail(failed.val)
                 ELSE [ga EXCEPT !.pc = "loop",
                                 !.acc_num = unwrap_or(try_get_u8(ga.input, "start"), 0)]
    /\ UNCHANGED <<cryptoVars, tx, idr, cr, da, ffi, sr>>

\* one iteration of the loop that ends the enumeration at the first account
\* number whose PRF evaluation fails
AccountsLoopStepStopsAtFailure ==
    /\ ga.pc = "loop"
    /\ ga.acc_num < ga.input.identityObject.max_accounts
    /\ LET key == ga.input.privateIdObjectData.prf_key
           reg_id == prf(key, ga.acc_num)
           enc_key == prf_exponent(key, ga.acc_num)
       IN  ga' = IF ~reg_id.ok
                 THEN [ga EXCEPT !.acc_num = ga.input.identityObject.max_accounts]
                 ELSE IF ~enc_key.ok
                 THEN [ga EXCEPT !.pc = "panic"]
                 ELSE [ga EXCEPT !.acc_num = @ + 1,
                          !.response = Append(@, account_entry(ga.input.global.elgamal_generator,
                                                               reg_id.val, enc_key.val))]
    /\ UNCHANGED <<cryptoVars, tx, idr, cr, da, ffi, sr>>

\* mutant of AccountsLoopStep: prf_exponent(acc_num).unwrap() is taken before
\* the result of prf is looked at
AccountsLoopStepUnwrapsFirst ==
    /\ ga.pc = "loop"
    /\ ga.acc_num < ga.input.identityObject.max_accounts
    /\ LET key == ga.input.privateIdObjectData.prf_key
           reg_id == prf(key, ga.acc_num)
           enc_key == prf_exponent(key, ga.acc_num)
       IN  ga' = IF ~enc_key.ok
                 THEN [ga EXCEPT !.pc = "panic"]
                 ELSE IF ~reg_id.ok
                 THEN [ga EXCEPT !.acc_num = @ + 1]
                 ELSE [ga EXCEPT !.acc_num = @ + 1,
                          !.response = Append(@, account_entry(ga.input.global.elgamal_generator,
                                                               reg_id.val, enc_key.val))]
    /\ UNCHANGED <<cryptoVars, tx, idr, cr, da, ffi, sr>>

\* one iteration of for acc_num in start..id_object.alist.max_accounts
AccountsLoopStep ==
    /\ ga.pc = "loop"
    /\ ga.acc_num < ga.input.identityObject.max_accounts
    /\ LET key == ga.input.privateIdObjectData.prf_key
           reg_id == prf(key, ga.acc_num)
           enc_key == prf_exponent(key, ga.acc_num)
       IN  ga' = IF ~reg_id.ok
                 THEN [ga EXCEPT !.acc_num = @ + 1]
                 ELSE IF ~enc_key.ok
                 THEN [ga EXCEPT !.pc = "panic"]
                 ELSE [ga EXCEPT !.acc_num = @ + 1,
                          !.response = Append(@, account_entry(ga.input.global.elgamal_generator,
                                                               reg_id.val, enc_key.val))]
    /\ UNCHANGED <<cryptoVars, tx, idr, cr, da, ffi, sr>>

\* the range is exhausted: Ok(to_string(&response)?)
AccountsRespond ==
    /\ ga.pc = "loop"
    /\ ga.acc_num >= ga.input.identityObject.max_accounts
    /\ ga' = [ga EXCEPT !.pc = "done", !.result = Ok(ga.response)]
    /\ UNCHANGED <<cryptoVars, tx, idr, cr, da, ffi, sr>>

AccountsStart(generator, max_accounts, prf_key, start) ==
    [pc |-> "start",
     input |-> [json |-> TRUE, absent |-> {}, undecodable |-> {},
                global |-> [elgamal_generator |-> generator],
                identityObject |-> [max_accounts |-> max_accounts],
                privateIdObjectData |-> [prf_key |-> prf_key],
                start |-> start],
     acc_num |-> 0, response |-> <<>>, result |-> Pending]

\* the values of the field start: u8 values around max_accounts and a number
\* that is no u8
StartSamples == 0..(MaxAccounts + 1) \cup {256}

InitAccounts ==
    /\ \E generator \in {1, 3}, max_accounts \in 0..MaxAccounts,
          prf_key \in 0..(PrfModulus - 1), start \in StartSamples, json \in BOOLEAN,
          absent \in {{}, {"start"}, {"identityObject"}, {"global", "start"}},
          undecodable \in {{}, {"start"}, {"privateIdObjectData"}} :
          /\ ~json => absent = {}
          /\ undecodable # {} => (json /\ absent = {})
          /\ (~json \/ absent # {} \/ undecodable # {}) => (start = 1 /\ generator = 1)
          /\ ga = WithUndecodable(WithInput(AccountsStart(generator, max_accounts, prf_key, start),
                                            json, absent), undecodable)
    /\ q = MaxOrder /\ base = 0 /\ x = 0 /\ bsgs = NoBsgs /\ calls = <<>> /\ eg = NoElGamal
    /\ tx = NoTx /\ idr = NoIdRequest /\ cr = NoCredential
    /\ da = NoDecrypt /\ ffi = NoFfi /\ sr = NoSerial

NextAccounts ==
    \/ AccountsParse
    \/ AccountsLoopStep
    \/ AccountsRespond

SpecAccounts == InitAccounts /\ [][NextAccounts]_vars

\* the required fields were read
AccountsParsed ==
    /\ ga.pc # "off"
    /\ ~parse_error(ga.input, FALSE, <<"global", "identityObject", "privateIdObjectData">>).some

\* the field start is present and is a u8
StartGiven == try_get_u8(ga.input, "start").ok

\* the account numbers from s up to max_accounts at which the PRF evaluation succeeds
Derivable(s) ==
    {n \in s..(ga.input.identityObject.max_accounts - 1) :
        prf(ga.input.privateIdObjectData.prf_key, n).ok}

\* the i-th smallest element of a finite set of numbers
Nth(S, i) == CHOOSE n \in S : Cardinality({k \in S : k < n}) = i - 1

\* the entry of account number n: the address of its registration ID and the
\* encryption key pair with scalar prf_exponent(n)
EntryOf(n) ==
    LET key == ga.input.privateIdObjectData.prf_key
        g == ga.input.global.elgamal_generator
    IN  [encryptionSecretKey |-> [generator |-> g, scalar |-> prf_exponent(key, n).val],
         encryptionPublicKey |-> [generator |-> g,
                                  key |-> mul_by_scalar(g, prf_exponent(key, n).val)],
         accountAddress |-> AccountAddressNew(prf(key, n).val)]

\* C15: every failed step of generate_accounts other than a PRF evaluation
\* ends the call with an error: a call that ends with a list of accounts has
\* parsed its input and extracted and decoded every field it reads, the field
\* start included
C15_OnlyPrfFailureSwallowed ==
    (ga.pc = "done" /\ ga.result.ok) => (AccountsParsed /\ StartGiven)

\* C16: for a start value s, generate_accounts returns the entries of exactly
\* the account numbers n with s <= n < max_accounts at which the PRF succeeds,
\* in increasing order of n (none when s >= max_accounts); the list is the
\* list for start 0 without the entries of the account numbers below s
C16_AccountsEnumerated ==
    (AccountsParsed /\ StartGiven) =>
        LET s == ga.input.start
            below == Cardinality({k \in Derivable(0) : k < s})
        IN  /\ ga.pc # "panic"
            /\ ga.pc = "done" =>
                 /\ ga.result.ok
                 /\ Len(ga.result.val) = Cardinality(Derivable(s))
                 /\ \A i \in 1..Len(ga.result.val) :
                       /\ ga.result.val[i] = EntryOf(Nth(Derivable(s), i))
                       /\ ga.result.val[i] = EntryOf(Nth(Derivable(0), i + below))
                 /\ s >= ga.input.identityObject.max_accounts => ga.result.val = <<>>

C16_Witness ==
    /\ AccountsParsed /\ StartGiven
    /\ ga.pc = "done"
    /\ ga.input.start = 1
    /\ ga.result.ok /\ Len(ga.result.val) = 2
    /\ Cardinality(Derivable(0)) = 3
    /\ Derivable(1) # 1..(ga.input.identityObject.max_accounts - 1)

(* ------------------ decrypt_encrypted_amount_aux (lib.rs) -------------- *)
\* encrypted_transfers::decrypt_amount(&table, &secret, &encrypted_amount): the
\* amount a with a * generator = decrypt(secret, cipher)
decrypt_amount(table, secret, cipher) ==
    LET point == decrypt(secret, cipher).value
    IN  CHOOSE a \in 0..(q - 1) : mul_by_scalar(secret.generator, a) = point

DecryptBail(msg) == [da EXCEPT !.pc = "done", !.result = Err(msg)]

\* from_str and the two try_get calls: encryptedAmount, encryptionSecretKey
DecryptParse ==
    /\ da.pc = "start"
    /\ LET failed == parse_error(da.input, FALSE, <<"encryptedAmount", "encryptionSecretKey">>)
       IN  da' = IF failed.some THEN DecryptBail(failed.val) ELSE [da EXCEPT !.pc = "table"]
    /\ UNCHANGED <<cryptoVars, tx, idr, cr, ga, ffi, sr>>

\* let table = (&mut Cursor::new(TABLE_BYTES)).get()?: a new table is
\* deserialized from the embedded bytes
DecryptLoadTable ==
    /\ da.pc = "table"
    /\ da' = [da EXCEPT !.pc = "decrypt", !.loads = @ + 1, !.table = Some(da.loads + 1)]
    /\ UNCHANGED <<cryptoVars, tx, idr, cr, ga, ffi, sr>>

\* decrypt_amount(&table, &secret, &encrypted_amount); the table is dropped
\* when the function returns
DecryptAmount ==
    /\ da.pc = "decrypt"
    /\ da' = [da EXCEPT !.pc = "done",
                        !.result = Ok(decrypt_amount(da.table.val, da.input.encryptionSecretKey,
                                                     da.input.encryptedAmount)),
                        !.used = Append(@, da.table.val),
                        !.table = None]
    /\ UNCHANGED <<cryptoVars, tx, idr, cr, ga, ffi, sr>>

\* the input of a call: an amount encrypted under the key of a secret key
DecryptInput(scalar, amount, k) ==
    LET secret == [generator |-> 3, scalar |-> scalar]
    IN  [json |-> TRUE, absent |-> {}, undecodable |-> {},
         encryptedAmount |-> encrypt_exponent(PublicKeyFrom(secret), amount, k),
         encryptionSecretKey |-> secret]

DecryptStart(input) ==
    [pc |-> "start", input |-> input, table |-> None, loads |-> 0, calls |-> 1,
     used |-> <<>>, result |-> Pending]

\* the inputs tried: well-formed ones and one that lacks a field
DecryptInputs ==
    {DecryptInput(scalar, amount, k) :
        scalar \in 1..MaxScalar, amount \in 0..MaxAmount, k \in 0..MaxRand} \cup
    {[DecryptInput(1, 1, 0) EXCEPT !.absent = {"encryptedAmount"}]}

\* the next call of the same process
DecryptAgain ==
    /\ da.pc = "done"
    /\ da.calls < MaxCalls
    /\ \E input \in DecryptInputs :
          da' = [DecryptStart(input) EXCEPT !.calls = da.calls + 1, !.loads = da.loads,
                                            !.used = da.used]
    /\ UNCHANGED <<cryptoVars, tx, idr, cr, ga, ffi, sr>>

InitDecrypt ==
    /\ q = MaxOrder /\ base = 0 /\ x = 0 /\ bsgs = NoBsgs /\ calls = <<>> /\ eg = NoElGamal
    /\ tx = NoTx /\ idr = NoIdRequest /\ cr = NoCredential
    /\ ga = NoAccounts /\ ffi = NoFfi /\ sr = NoSerial
    /\ \E input \in DecryptInputs : da = DecryptStart(input)

NextDecrypt ==
    \/ DecryptParse
    \/ DecryptLoadTable
    \/ DecryptAmount
    \/ DecryptAgain

SpecDecrypt == InitDecrypt /\ [][NextDecrypt]_vars

\* C20: over the decrypt_encrypted_amount calls of one process the
\* baby-step giant-step table is built from the embedded bytes at most once,
\* and every call uses that one table instance
C20_TableLoadedOnce ==
    da.pc # "off" =>
        /\ da.loads <= 1
        /\ \A i \in DOMAIN da.used, j \in DOMAIN da.used : da.used[i] = da.used[j]

(* ---------------------- the exported functions (lib.rs) ---------------- *)
\* the functions made by make_wrapper!: they return a string
StringEntryPoints ==
    Ops \cup {"create_id_request_and_private_data", "create_credential",
              "combine_encrypted_amounts", "generate_accounts"}

EntryPoints == StringEntryPoints \cup {"decrypt_encrypted_amount", "check_account_address"}

\* a write of v through the success pointer
write_flag(call, v) == [call EXCEPT !.flag = v, !.writes = @ + 1]

\* signal_error that leaves the flag as the caller set it
signal_error_keeps_flag(call, err_msg) ==
    [call EXCEPT !.pc = "returned", !.ret = [kind |-> "error", msg |-> err_msg]]

\* signal_error(flag, err_msg): *flag = 0 and the message as a C string. No
\* message of the wallet holds a NUL byte, so CString::new succeeds
signal_error(call, err_msg) ==
    [write_flag(call, 0) EXCEPT !.pc = "returned", !.ret = [kind |-> "error", msg |-> err_msg]]

\* encode_response(response, success); to_string escapes control characters,
\* so CString::new(s) succeeds on every response
encode_response(call, response) ==
    IF response.ok
    THEN [write_flag(call, 1) EXCEPT !.pc = "returned",
                                     !.ret = [kind |-> "payload", val |-> response.val]]
    ELSE signal_error(call, <<"Could not produce response: ", response.err>>)

\* get_string! over the pointers of a call, in order: the error of the first
\* pointer that is null or does not hold UTF-8, None when all hold strings
RECURSIVE get_string_error(_)
get_string_error(ptrs) ==
    IF ptrs = <<>> THEN None
    ELSE IF Head(ptrs) = "null" THEN Some("Null pointer input.")
    ELSE IF Head(ptrs) = "not_utf8"
         THEN Some(<<"Could not decode input string: ", "invalid utf-8 sequence">>)
         ELSE get_string_error(Tail(ptrs))

\* combine_encrypted_amounts_aux(left, right)
combine_encrypted_amounts_aux(left, right) ==
    IF ~from_str(left).ok THEN Err(from_str(left).err)
    ELSE IF ~from_str(right).ok THEN Err(from_str(right).err)
    ELSE Ok(aggregate(left.value, right.value))

\* the response of the function a wrapper calls, once that function has ended
WrappedEnded ==
    CASE ffi.entry \in Ops -> tx.pc = "done"
      [] ffi.entry = "create_id_request_and_private_data" -> idr.pc = "done"
      [] ffi.entry = "create_credential" -> cr.pc = "done"
      [] ffi.entry = "generate_accounts" -> ga.pc = "done"
      [] ffi.entry = "combine_encrypted_amounts" -> TRUE
      [] OTHER -> FALSE

WrappedResponse ==
    CASE ffi.entry \in Ops -> tx.result
      [] ffi.entry = "create_id_request_and_private_data" -> idr.result
      [] ffi.entry = "create_credential" -> cr.result
      [] ffi.entry = "generate_accounts" -> ga.result
      [] ffi.entry = "combine_encrypted_amounts" ->
            combine_encrypted_amounts_aux(ffi.args.left, ffi.args.right)

\* make_wrapper!, first half: get_string! on each pointer, then the call
FfiGetString ==
    /\ ffi.pc = "entry" /\ ffi.entry \in StringEntryPoints
    /\ LET failed == get_string_error(ffi.ptrs)
           called(e) == ~failed.some /\ e
       IN  /\ ffi' = IF failed.some THEN signal_error(ffi, failed.val)
                     ELSE [ffi EXCEPT !.pc = "call"]
           /\ tx' = IF called(ffi.entry \in Ops) THEN ffi.args ELSE tx
           /\ idr' = IF called(ffi.entry = "create_id_request_and_private_data")
                     THEN ffi.args ELSE idr
           /\ cr' = IF called(ffi.entry = "create_credential") THEN ffi.args ELSE cr
           /\ ga' = IF called(ffi.entry = "generate_accounts") THEN ffi.args ELSE ga
    /\ UNCHANGED <<cryptoVars, da, sr>>

\* make_wrapper!, second half: encode_response(response, success)
FfiEncodeResponse ==
    /\ ffi.pc = "call" /\ ffi.entry \in StringEntryPoints
    /\ WrappedEnded
    /\ ffi' = encode_response(ffi, WrappedResponse)
    /\ UNCHANGED <<cryptoVars, tx, idr, cr, ga, da, sr>>

\* decrypt_encrypted_amount up to the call of decrypt_encrypted_amount_aux
FfiDecryptGetString ==
    /\ ffi.pc = "entry" /\ ffi.entry = "decrypt_encrypted_amount"
    /\ IF Head(ffi.ptrs) \in {"null", "not_utf8"}
       THEN /\ ffi' = [write_flag(ffi, 0) EXCEPT !.pc = "returned",
                                                 !.ret = [kind |-> "number", val |-> 0]]
            /\ da' = da
       ELSE /\ ffi' = [ffi EXCEPT !.pc = "call"]
            /\ da' = ffi.args
    /\ UNCHANGED <<cryptoVars, tx, idr, cr, ga, sr>>

\* decrypt_encrypted_amount after the call
FfiDecryptReturn ==
    /\ ffi.pc = "call" /\ ffi.entry = "decrypt_encrypted_amount"
    /\ da.pc = "done"
    /\ ffi' = IF da.result.ok
              THEN [write_flag(ffi, 1) EXCEPT !.pc = "returned",
                                              !.ret = [kind |-> "number", val |-> da.result.val]]
              ELSE [write_flag(ffi, 0) EXCEPT !.pc = "returned",
                                              !.ret = [kind |-> "number", val |-> 0]]
    /\ UNCHANGED <<cryptoVars, tx, idr, cr, ga, da, sr>>

\* check_account_address: CStr::from_ptr without a null check, so a null
\* pointer is undefined behaviour (a crash, or either return value); there is
\* no success flag
FfiCheckAccountAddress ==
    /\ ffi.pc = "entry" /\ ffi.entry = "check_account_address"
    /\ \E outcome \in {"crashed", "returns_0", "returns_1"} :
          ffi' = IF Head(ffi.ptrs) = "null"
                 THEN IF outcome = "crashed"
                      THEN [ffi EXCEPT !.pc = "crashed"]
                      ELSE [ffi EXCEPT !.pc = "returned",
                                       !.ret = [kind |-> "number",
                                                val |-> IF outcome = "returns_1" THEN 1 ELSE 0]]
                 ELSE IF Head(ffi.ptrs) = "not_utf8"
                 THEN [ffi EXCEPT !.pc = "returned", !.ret = [kind |-> "number", val |-> 0]]
                 ELSE [ffi EXCEPT !.pc = "returned",
                          !.ret = [kind |-> "number",
                                   val |-> IF ffi.args.parses THEN 1 ELSE 0]]
    /\ UNCHANGED <<cryptoVars, tx, idr, cr, ga, da, sr>>

\* the pointers a caller passes: one, or two for combine_encrypted_amounts
PointerKinds == {"null", "not_utf8", "str"}

Pointers(entry) ==
    IF entry = "combine_encrypted_amounts"
    THEN {<<a, b>> : a \in PointerKinds, b \in PointerKinds}
    ELSE {<<a>> : a \in PointerKinds}

\* a transfer context for the calls through the wrappers
SampleContext(to) ==
    [from |-> Address(0), to |-> to, expiry |-> 2, nonce |-> 1,
     keys |-> AccountKeysOf([ci \in {0} |-> {0}], 1, 1), energy |-> 0]

\* the strings a caller passes to an entry point, as the input of the call
FfiInputs(entry) ==
    CASE entry \in Ops ->
            {WithInput(TxStart(entry, SampleContext(to), 1, data), json, absent) :
                to \in {None, Some(Address(200))}, data \in DataSamples,
                json \in BOOLEAN, absent \in {{}, {"amount"}}}
      [] entry = "create_id_request_and_private_data" ->
            {WithInput(IdRequestStart({}, 1..l), json, absent) :
                l \in 0..MaxThreshold, json \in BOOLEAN, absent \in {{}, {"global"}}}
      [] entry = "create_credential" ->
            {WithInput(CredentialStart({}, {0}, tags, 0, 1), json, absent) :
                tags \in {<<>>, <<0>>, <<1>>, <<0, 0>>}, json \in BOOLEAN,
                absent \in {{}, {"expiry"}}}
      [] entry = "generate_accounts" ->
            {WithInput(AccountsStart(3, MaxAccount + 1, prf_key, start), json, absent) :
                prf_key \in {0, 1}, start \in {0, 1, 256}, json \in BOOLEAN,
                absent \in {{}, {"start"}, {"global"}}}
      [] entry = "combine_encrypted_amounts" ->
            {[left |-> [json |-> jl, value |-> <<1, 2>>],
              right |-> [json |-> jr, value |-> <<3, 4>>]] : jl \in BOOLEAN, jr \in BOOLEAN}
      [] entry = "decrypt_encrypted_amount" -> {DecryptStart(input) : input \in DecryptInputs}
      [] entry = "check_account_address" -> {[parses |-> b] : b \in BOOLEAN}

FfiStart(entry, ptrs, args, flag) ==
    [pc |-> "entry", entry |-> entry, ptrs |-> ptrs, args |-> args, flag |-> flag,
     writes |-> 0, ret |-> [kind |-> "none"]]

InitFfi ==
    /\ q = MaxOrder /\ base = 0 /\ x = 0 /\ bsgs = NoBsgs /\ calls = <<>> /\ eg = NoElGamal
    /\ tx = NoTx /\ idr = NoIdRequest /\ cr = NoCredential
    /\ ga = NoAccounts /\ da = NoDecrypt /\ sr = NoSerial
    /\ \E entry \in EntryPoints, flag \in {0, 1, 255} :
          \E ptrs \in Pointers(entry), args \in FfiInputs(entry) :
             /\ flag # 1 => ptrs \in {<<"str">>, <<"str", "str">>}
             /\ ffi = FfiStart(entry, ptrs, args, flag)

NextFfi ==
    \/ FfiGetString
    \/ FfiEncodeResponse
    \/ FfiDecryptGetString
    \/ FfiDecryptReturn
    \/ FfiCheckAccountAddress
    \/ NextTx
    \/ NextIdRequest
    \/ NextCredential
    \/ AccountsParse
    \/ AccountsLoopStep
    \/ AccountsRespond
    \/ DecryptParse
    \/ DecryptLoadTable
    \/ DecryptAmount

SpecFfi == InitFfi /\ [][NextFfi]_vars

\* C13: a call of a string-returning entry point that returns has written the
\* success flag and hands back either flag 1 with the payload of the response
\* or flag 0 with one error message: flag 1 exactly when every pointer held a
\* string and the wrapped function returned Ok
C13_FlagMatchesResult ==
    (ffi.pc = "returned" /\ ffi.entry \in StringEntryPoints) =>
        /\ ffi.writes >= 1
        /\ ffi.flag \in {0, 1}
        /\ ffi.flag = 1 <=> ffi.ret.kind = "payload"
        /\ ffi.flag = 0 <=> ffi.ret.kind = "error"
        /\ ffi.flag = 1 <=> (~get_string_error(ffi.ptrs).some /\ WrappedResponse.ok)
        /\ ffi.flag = 1 => ffi.ret.val = WrappedResponse.val

C13_Witness ==
    /\ ffi.pc = "returned"
    /\ ffi.entry = "generate_accounts"
    /\ ffi.flag = 1 /\ ffi.writes = 1
    /\ ffi.ret.kind = "payload" /\ Len(ffi.ret.val) = 1

\* the fields an entry point requires in its input
RequiredFields(entry) ==
    CASE entry = "create_transfer" -> {"from", "expiry", "nonce", "keys", "energy", "amount"}
      [] entry \in Ops \ {"create_transfer"} ->
            {"from", "expiry", "nonce", "keys", "energy", "amount", "global"}
      [] entry = "create_id_request_and_private_data" -> {"ipInfo", "global", "arsInfos"}
      [] entry = "create_credential" ->
            {"expiry", "ipInfo", "arsInfos", "global", "identityObject",
             "privateIdObjectData", "revealedAttributes", "accountNumber"}
      [] entry = "generate_accounts" -> {"global", "identityObject", "privateIdObjectData"}
      [] entry = "decrypt_encrypted_amount" -> {"encryptedAmount", "encryptionSecretKey"}
      [] OTHER -> {}

\* a pointer of the call is null or holds no UTF-8, or the input lacks a required field
MalformedInput ==
    \/ get_string_error(ffi.ptrs).some
    \/ /\ RequiredFields(ffi.entry) # {}
       /\ ffi.args.input.json
       /\ ffi.args.input.absent \cap RequiredFields(ffi.entry) # {}

\* nothing of the wrapped operation was computed
NothingComputed ==
    /\ tx.pc # "off" => (tx.rng = 0 /\ tx.body = <<>> /\ ~tx.signatures.some)
    /\ idr.pc # "off" => (idr.rng = 0 /\ ~idr.pio.some)
    /\ cr.pc # "off" => (cr.rng = 0 /\ ~cr.cdi.some)
    /\ ga.pc # "off" => ga.response = <<>>
    /\ da.pc # "off" => da.loads = 0

\* C14: every exported function answers a null pointer, a pointer to bytes
\* that are no UTF-8 and an input that lacks a required field with a
\* descriptive error and the failure indicator, having computed nothing
C14_MalformedInputRejected ==
    (ffi.pc \in {"returned", "crashed"} /\ MalformedInput) =>
        /\ ffi.pc = "returned"
        /\ ffi.writes >= 1 /\ ffi.flag = 0
        /\ ffi.ret.kind = "error"
        /\ NothingComputed

(* ------------- derive(Serialize) (crypto_common_derive) ---------------- *)
\* a field without a length attribute: an unsigned integer of n bytes
PlainField(n) == [attr |-> "none", n |-> n]

\* a field with #[size_length = l], #[map_size_length = l] or
\* #[string_size_length = l], as find_length_attribute reads it
SizedField(attr, l) == [attr |-> attr, n |-> l]

\* serial_vector_no_length / serial_string: the elements, no length
serial_vector_no_length(v) == v

\* serial_map_no_length: the pairs key, value in increasing key order, here
\* for the keys lo..hi
RECURSIVE serial_map_range(_, _, _)
serial_map_range(m, lo, hi) ==
    IF lo = hi THEN (IF lo \in DOMAIN m THEN <<lo, m[lo]>> ELSE <<>>)
    ELSE LET mid == (lo + hi) \div 2
         IN  serial_map_range(m, lo, mid) \o serial_map_range(m, mid + 1, hi)

serial_map_no_length(m) == serial_map_range(m, 0, 255)

\* the number of elements: Vec::len, String::len, BTreeMap::len
len(attr, v) == IF attr = "map_size_length" THEN Cardinality(DOMAIN v) ELSE Len(v)

\* the code impl_serial generates for one field: let len: uN = self.f.len() as
\* uN; len.serial(out); then the elements
serial_field(f, v) ==
    IF f.attr = "none" THEN put_uint(v, f.n)
    ELSE put_uint(len(f.attr, v), f.n) \o
         (IF f.attr = "map_size_length" THEN serial_map_no_length(v)
          ELSE serial_vector_no_length(v))

\* the generated serial: the fields in declaration order
RECURSIVE serial(_, _)
serial(shape, value) ==
    IF shape = <<>> THEN <<>>
    ELSE serial_field(Head(shape), Head(value)) \o serial(Tail(shape), Tail(value))

\* what is left of the source after n bytes
after(source, n) == SubSeq(source, n + 1, Len(source))

\* the map of the pairs lo..hi of the source, a later pair replacing an
\* earlier one with the same key
RECURSIVE deserial_map_range(_, _, _)
deserial_map_range(source, lo, hi) ==
    IF lo > hi THEN <<>>
    ELSE IF lo = hi THEN [k \in {source[2 * lo - 1]} |-> source[2 * lo]]
    ELSE LET mid == (lo + hi) \div 2
             a == deserial_map_range(source, lo, mid)
             b == deserial_map_range(source, mid + 1, hi)
         IN  [k \in (DOMAIN a) \cup (DOMAIN b) |-> IF k \in DOMAIN b THEN b[k] ELSE a[k]]

\* deserial_map_no_length(source, n): n pairs key, value, inserted in order
deserial_map_no_length(source, n) ==
    IF Len(source) < 2 * n THEN [ok |-> FALSE]
    ELSE [ok |-> TRUE, val |-> deserial_map_range(source, 1, n), rest |-> after(source, 2 * n)]

\* deserial_vector_no_length(source, n) / deserial_string(source, n): n elements
deserial_vector_no_length(source, n) ==
    IF Len(source) < n THEN [ok |-> FALSE]
    ELSE [ok |-> TRUE, val |-> SubSeq(source, 1, n), rest |-> after(source, n)]

\* the code impl_deserial generates for one field: let len = uN::deserial(source)?
\* and then len elements
deserial_field(f, source) ==
    IF Len(source) < f.n THEN [ok |-> FALSE]
    ELSE LET read == from_be(SubSeq(source, 1, f.n))
             rest == after(source, f.n)
         IN  IF f.attr = "none" THEN [ok |-> TRUE, val |-> read, rest |-> rest]
             ELSE IF f.attr = "map_size_length" THEN deserial_map_no_length(rest, read)
             ELSE deserial_vector_no_length(rest, read)

\* the generated deserial: the fields in declaration order, ? on each
RECURSIVE deserial_from(_, _, _)
deserial_from(shape, source, value) ==
    IF shape = <<>> THEN Ok(value)
    ELSE LET field == deserial_field(Head(shape), source)
         IN  IF ~field.ok THEN Err("unexpected end of input")
             ELSE deserial_from(Tail(shape), field.rest, Append(value, field.val))

deserial(shape, source) == deserial_from(shape, source, <<>>)

\* self.serial(out)
Serial ==
    /\ sr.pc = "start"
    /\ sr' = [sr EXCEPT !.pc = "serialized", !.bytes = serial(sr.shape, sr.value)]
    /\ UNCHANGED <<cryptoVars, tx, idr, cr, ga, da, ffi>>

\* Self::deserial(&mut Cursor::new(bytes))
Deserial ==
    /\ sr.pc = "serialized"
    /\ sr' = [sr EXCEPT !.pc = "done", !.result = deserial(sr.shape, sr.bytes)]
    /\ UNCHANGED <<cryptoVars, tx, idr, cr, ga, da, ffi>>

\* elgamal::SecretKey { generator, scalar }: two fields without attributes
SecretKeyShape == <<PlainField(2), PlainField(2)>>

\* struct { tag: u8, #[attr = l] items, check: u8 }
SizedShape(attr, l) == <<PlainField(1), SizedField(attr, l), PlainField(1)>>

\* the lengths tried: short ones and the ones around 2^8
Lengths == {0, 1, MaxVec, 255, 256, 257}

\* the values of a field with a length attribute
SizedValues(attr) ==
    IF attr = "map_size_length"
    THEN {[k \in 0..(n - 1) |-> (k + b) % 256] : n \in Lengths \ {257}, b \in {0, 7}}
    ELSE {[i \in 1..n |-> b] : n \in Lengths, b \in {0, 7}} \cup {<<1, 2>>}

SerialStart(shape, value) ==
    [pc |-> "start", shape |-> shape, value |-> value, bytes |-> <<>>, result |-> Pending]

InitSerial ==
    /\ q = MaxOrder /\ base = 0 /\ x = 0 /\ bsgs = NoBsgs /\ calls = <<>> /\ eg = NoElGamal
    /\ tx = NoTx /\ idr = NoIdRequest /\ cr = NoCredential
    /\ ga = NoAccounts /\ da = NoDecrypt /\ ffi = NoFfi
    /\ \/ \E generator \in 0..(MaxOrder - 1), scalar \in 0..MaxScalar :
             sr = SerialStart(SecretKeyShape, <<generator, scalar>>)
       \/ \E attr \in {"size_length", "map_size_length", "string_size_length"},
             l \in {1, 2, 4, 8}, tag \in {0, 255} :
             \E items \in SizedValues(attr) :
                sr = SerialStart(SizedShape(attr, l), <<tag, items, 1>>)

NextSerial ==
    \/ Serial
    \/ Deserial

SpecSerial == InitSerial /\ [][NextSerial]_vars

\* C19: for every value of a struct with a derived Serial and Deserial,
\* deserial of its serialization succeeds and gives the value back
C19_RoundTrip ==
    sr.pc = "done" => sr.result = Ok(sr.value)

(* ------------- the three prf_exponent(n).unwrap() of lib.rs ------------- *)
\* one call of create_id_request_and_private_data, create_credential or
\* generate_accounts
InitUnwrap == InitIdRequest \/ InitCredential \/ InitAccounts

NextUnwrap ==
    \/ NextIdRequest
    \/ NextCredential
    \/ NextAccounts

SpecUnwrap == InitUnwrap /\ [][NextUnwrap]_vars

\* create_id_request_and_private_data is at or past prf_exponent(0).unwrap()
IdRequestAtUnwrap == idr.pc \in {"respond", "panic"} \/ (idr.pc = "done" /\ idr.result.ok)

\* create_credential is at or past prf_exponent(acc_num).unwrap()
CredentialAtUnwrap == cr.pc \in {"respond", "panic"} \/ (cr.pc = "done" /\ cr.result.ok)

\* C24: prf_exponent(n).unwrap() is reached only after the registration ID of the
\* same PRF key and account number n was derived (by generate_pio for n = 0, by
\* create_credential for acc_num, by prf inside the loop of generate_accounts),
\* prf_exponent(n) is defined whenever that derivation succeeds, and none of the
\* three unwraps panics.
C24_UnwrapsCannotPanic ==
    /\ idr.pc # "panic" /\ cr.pc # "panic" /\ ga.pc # "panic"
    /\ IdRequestAtUnwrap =>
          /\ idr.pio.some
          /\ Ok(idr.pio.val.reg_id) = prf(idr.prf_key.val, 0)
          /\ prf_exponent(idr.prf_key.val, 0).ok
    /\ CredentialAtUnwrap =>
          /\ cr.cdi.some
          /\ Ok(cr.cdi.val.cred_id) = prf(cr.input.privateIdObjectData.prf_key, cr.input.accountNumber)
          /\ prf_exponent(cr.input.privateIdObjectData.prf_key, cr.input.accountNumber).ok
    /\ (AccountsParsed /\ ga.pc \in {"loop", "done"}) =>
          \A n \in 0..MaxAccounts :
             prf(ga.input.privateIdObjectData.prf_key, n).ok
                => prf_exponent(ga.input.privateIdObjectData.prf_key, n).ok

\* generate_accounts returned entries although the PRF failed at an account
\* number of the range
C24_Witness ==
    /\ AccountsParsed /\ StartGiven
    /\ ga.pc = "done" /\ ga.result.ok
    /\ Len(ga.result.val) >= 2
    /\ \E n \in (ga.input.start + 1)..(ga.input.identityObject.max_accounts - 2) :
          ~prf_exponent(ga.input.privateIdObjectData.prf_key, n).ok
====
